---- MODULE Spec2Model ----
(***************************************************************************)
(* Model of the knowledge-sharing app.                                     *)
(*                                                                         *)
(* The Backlog-wiki markup converter (src/src/utils/backlogWikiParser.ts): *)
(* a string is a sequence of one-character strings; the converter's four   *)
(* stages are computed on these sequences character by character, as the   *)
(* code computes them.  The table stage is stepped line by line so that    *)
(* its loop state (i, result, inTable) is visible; the three regex/line    *)
(* stages are one step each.                                               *)
(*                                                                         *)
(* The App component and the useAuth hook (src/unnamed/part_005,           *)
(* src/src/hooks/useAuth.ts): the authentication state, the navigation     *)
(* state and the pending redirect timers, one step per event handler.      *)
(*                                                                         *)
(* The article, bookmark, read-later, like and view stores                 *)
(* (src/unnamed/part_005): the arrays kept in localStorage, one step per   *)
(* manager call.                                                           *)
(*                                                                         *)
(* Date.now() is the variable clock, in milliseconds.  DAY stands for the  *)
(* 24 hours of the source, scaled down to a few milliseconds.              *)
(***************************************************************************)
EXTENDS Integers, Sequences, FiniteSets, TLC

VARIABLES
    toks,      \* the fragments the caller's text is made of
    text,      \* the argument of parseBacklogWiki
    pc,        \* position in parseBacklogWiki: "table","code","inline","basic","done"
    lines,     \* parseTable: text.split('\n')
    i,         \* parseTable: loop index (1-based)
    result,    \* parseTable: the result array
    inTable,   \* parseTable: the inTable flag
    html,      \* parseBacklogWiki: the html variable
    calls      \* the calls of parseBacklogWiki that returned: [text, html]

VARIABLES
    users,              \* the user store: [id, username, role] records
    session,            \* localStorage: current_user_id and login_time
    authState,          \* useAuth: [isLoggedIn, userRole, userId]
    currentPage,        \* App: currentPage
    previousPage,       \* App: previousPage
    selectedArticleId,  \* App: selectedArticleId (0 for null)
    editorMode,         \* App: editorMode
    timers,             \* pending redirect timers: username -> how many
    otherAuth,          \* useAuth of the other tabs of the same browser
    lastCall            \* the last handler or manager call and its result

VARIABLES
    articles,   \* the article store: the ids of the stored articles
    bookmarks,  \* the bookmark store: [articleId, userId] items
    readLater,  \* the read-later store: [articleId, userId] items
    likes,      \* the like store: [id, articleId, userId] items
    views       \* the view store: [articleId, userId, viewedAt] items

VARIABLES
    clock       \* Date.now()

converterVars == <<toks, text, pc, lines, i, result, inTable, html, calls>>

appVars ==
    <<users, session, authState, currentPage, previousPage,
      selectedArticleId, editorMode, timers, otherAuth, lastCall>>

\* The App's variables that no manager call touches.
sessionVars ==
    <<users, session, authState, currentPage, previousPage,
      selectedArticleId, editorMode, timers, otherAuth>>

storeVars == <<articles, bookmarks, readLater, likes, views>>

vars == <<converterVars, appVars, storeVars, clock>>

----------------------------------------------------------------------------
(* Literals of the source.  "BULLET" stands for the one character U+2022.  *)

TABLE_OPEN ==
    <<"<","t","a","b","l","e"," ","c","l","a","s","s","=","\"","b","a","c","k","l","o","g","-","t","a","b","l","e","\"",">">>

THEAD_OPEN ==
    <<"<","t","h","e","a","d",">">>

TR_OPEN ==
    <<"<","t","r",">">>

TH_OPEN ==
    <<"<","t","h"," ","c","l","a","s","s","=","\"","b","a","c","k","l","o","g","-","t","h","\"",">">>

TH_CLOSE ==
    <<"<","/","t","h",">">>

TR_CLOSE ==
    <<"<","/","t","r",">">>

THEAD_CLOSE ==
    <<"<","/","t","h","e","a","d",">">>

TBODY_OPEN ==
    <<"<","t","b","o","d","y",">">>

TD_OPEN ==
    <<"<","t","d"," ","c","l","a","s","s","=","\"","b","a","c","k","l","o","g","-","t","d","\"",">">>

TD_CLOSE ==
    <<"<","/","t","d",">">>

TBODY_CLOSE ==
    <<"<","/","t","b","o","d","y",">">>

TABLE_CLOSE ==
    <<"<","/","t","a","b","l","e",">">>

PRE_OPEN ==
    <<"<","p","r","e"," ","c","l","a","s","s","=","\"","b","a","c","k","l","o","g","-","c","o","d","e","-","b","l","o","c","k","\"",">","<","c","o","d","e"," ","c","l","a","s","s","=","\"","l","a","n","g","u","a","g","e","-">>

PRE_MID ==
    <<"\"",">">>

PRE_CLOSE ==
    <<"<","/","c","o","d","e",">","<","/","p","r","e",">">>

DEFAULT_LANG ==
    <<"t","e","x","t">>

ICODE_OPEN ==
    <<"<","c","o","d","e"," ","c","l","a","s","s","=","\"","b","a","c","k","l","o","g","-","i","n","l","i","n","e","-","c","o","d","e","\"",">">>

ICODE_CLOSE ==
    <<"<","/","c","o","d","e",">">>

STRONG_OPEN ==
    <<"<","s","t","r","o","n","g",">">>

STRONG_CLOSE ==
    <<"<","/","s","t","r","o","n","g",">">>

H1_OPEN ==
    <<"<","h","1"," ","c","l","a","s","s","=","\"","b","a","c","k","l","o","g","-","h","1","\"",">">>

H1_CLOSE ==
    <<"<","/","h","1",">">>

H2_OPEN ==
    <<"<","h","2"," ","c","l","a","s","s","=","\"","b","a","c","k","l","o","g","-","h","2","\"",">">>

H2_CLOSE ==
    <<"<","/","h","2",">">>

H3_OPEN ==
    <<"<","h","3"," ","c","l","a","s","s","=","\"","b","a","c","k","l","o","g","-","h","3","\"",">">>

H3_CLOSE ==
    <<"<","/","h","3",">">>

LIST_OPEN ==
    <<"<","p"," ","c","l","a","s","s","=","\"","b","a","c","k","l","o","g","-","l","i","s","t","\"",">","BULLET"," ">>

P_CLOSE ==
    <<"<","/","p",">">>

SPACER ==
    <<"<","d","i","v"," ","c","l","a","s","s","=","\"","b","a","c","k","l","o","g","-","s","p","a","c","e","r","\"",">","<","/","d","i","v",">">>

P_OPEN ==
    <<"<","p"," ","c","l","a","s","s","=","\"","b","a","c","k","l","o","g","-","p","a","r","a","g","r","a","p","h","\"",">">>

CODE_START ==
    <<"{","c","o","d","e">>

CODE_END ==
    <<"{","/","c","o","d","e","}">>

ICODE_START ==
    <<"&","c","o","d","e","(">>

ICODE_END ==
    <<")",";">>

STARS ==
    <<"*","*">>

AMP_ENT ==
    <<"&","a","m","p",";">>

LT_ENT ==
    <<"&","l","t",";">>

GT_ENT ==
    <<"&","g","t",";">>
----------------------------------------------------------------------------
(* String primitives of JavaScript used by the converter.                  *)

NL == "\n"

\* White space removed by String.prototype.trim (the ASCII members).
WhiteSpace == {" ", "\t", "\n", "\r", "\f"}

\* Line terminators, which '.' of a regular expression does not match.
LineTerminators == {"\n", "\r"}

\* \w of a regular expression.
WordChars ==
    {"a","b","c","d","e","f","g","h","i","j","k","l","m","n","o","p","q","r",
     "s","t","u","v","w","x","y","z","A","B","C","D","E","F","G","H","I","J",
     "K","L","M","N","O","P","Q","R","S","T","U","V","W","X","Y","Z","0","1",
     "2","3","4","5","6","7","8","9","_"}

Min(a, b) == IF a < b THEN a ELSE b

Max(a, b) == IF a > b THEN a ELSE b

\* s.substring(n) / s.slice(n): the characters after the first n.
substring(s, n) == SubSeq(s, Min(n, Len(s)) + 1, Len(s))

\* s.slice(a, -b) for a, b >= 0: empty when the bounds cross.
slice(s, a, b) == SubSeq(s, Min(a, Len(s)) + 1, Max(Len(s) - b, 0))

\* pat occurs in s at position p (1-based).
MatchesAt(s, p, pat) ==
    /\ p >= 1
    /\ p + Len(pat) - 1 <= Len(s)
    /\ SubSeq(s, p, p + Len(pat) - 1) = pat

startsWith(s, pat) == MatchesAt(s, 1, pat)

endsWith(s, pat) == MatchesAt(s, Len(s) - Len(pat) + 1, pat)

RECURSIVE TrimStart(_)
TrimStart(s) ==
    IF s # <<>> /\ Head(s) \in WhiteSpace THEN TrimStart(Tail(s)) ELSE s

RECURSIVE TrimEnd(_)
TrimEnd(s) ==
    IF s # <<>> /\ s[Len(s)] \in WhiteSpace
    THEN TrimEnd(SubSeq(s, 1, Len(s) - 1)) ELSE s

trim(s) == TrimEnd(TrimStart(s))

\* The least member of a set of positions, or 0 when it is empty: the
\* leftmost place at which a scan that tries every position in turn succeeds.
FirstOf(S) ==
    IF S = {} THEN 0 ELSE CHOOSE q \in S : \A r \in S : q <= r

\* s.indexOf(pat, from), 1-based, 0 when pat does not occur.
IndexFrom(s, pat, from) ==
    FirstOf({q \in from..(Len(s) - Len(pat) + 1) : MatchesAt(s, q, pat)})

\* s.split(sep) for a non-empty separator: always at least one piece.
RECURSIVE SplitFrom(_, _, _)
SplitFrom(s, sep, p) ==
    LET q == IndexFrom(s, sep, p)
    IN  IF q = 0 THEN <<SubSeq(s, p, Len(s))>>
        ELSE <<SubSeq(s, p, q - 1)>> \o SplitFrom(s, sep, q + Len(sep))

split(s, sep) == SplitFrom(s, sep, 1)

\* parts.join(sep)
RECURSIVE join(_, _)
join(parts, sep) ==
    IF parts = <<>> THEN <<>>
    ELSE IF Len(parts) = 1 THEN parts[1]
    ELSE parts[1] \o sep \o join(Tail(parts), sep)

----------------------------------------------------------------------------
(* escapeHtml: the text is assigned to div.textContent and div.innerHTML   *)
(* is read back; the HTML fragment serialisation of a text node replaces   *)
(* '&', '<' and '>' and leaves every other character, quotes included.     *)

\* escapeChar without the replacement of '&'.
escapeChar_NoAmp(c) ==
    IF c = "<" THEN LT_ENT
    ELSE IF c = ">" THEN GT_ENT
    ELSE <<c>>

escapeChar(c) ==
    IF c = "&" THEN AMP_ENT
    ELSE IF c = "<" THEN LT_ENT
    ELSE IF c = ">" THEN GT_ENT
    ELSE <<c>>

\* The serialisation of the characters lo..hi of s.
RECURSIVE escapeRange(_, _, _)
escapeRange(s, lo, hi) ==
    IF lo > hi THEN <<>>
    ELSE IF lo = hi THEN escapeChar(s[lo])
    ELSE LET mid == (lo + hi) \div 2
         IN  escapeRange(s, lo, mid) \o escapeRange(s, mid + 1, hi)

escapeHtml(s) == escapeRange(s, 1, Len(s))

----------------------------------------------------------------------------
(* parseTable, one loop iteration per step.                                *)

\* const line = lines[i].trim()
line == trim(lines[i])

isHeaderRow(l) == startsWith(l, <<"|", "|">>) /\ endsWith(l, <<"|", "|">>)

isDataRow(l) == startsWith(l, <<"|">>) /\ endsWith(l, <<"|">>)

\* pushCells with the text of every cell escaped.
pushCells_Escaped(cells, open, close) ==
    [k \in 1..Len(cells) |-> open \o escapeHtml(trim(cells[k])) \o close]

\* cells.forEach(cell => result.push(open + cell.trim() + close))
RECURSIVE pushCells(_, _, _)
pushCells(cells, open, close) ==
    IF cells = <<>> THEN <<>>
    ELSE <<open \o trim(Head(cells)) \o close>>
         \o pushCells(Tail(cells), open, close)

headerCells(l) == split(slice(l, 2, 2), <<"|", "|">>)

\* dataCells without stripping the outer pipes.
dataCells_NoSlice(l) == split(l, <<"|">>)

dataCells(l) == split(slice(l, 1, 1), <<"|">>)

ParseTableStart ==
    /\ pc = "start"
    /\ lines' = split(text, <<NL>>)
    /\ result' = <<>>
    /\ inTable' = FALSE
    /\ i' = 1
    /\ pc' = "table"
    /\ UNCHANGED <<appVars, storeVars, clock, calls>>
    /\ UNCHANGED <<toks, text, html>>

\* TableHeaderRow with <thead> pushed for every header row.
TableHeaderRow_TheadPerRow ==
    /\ pc = "table"
    /\ i <= Len(lines)
    /\ isHeaderRow(line)
    /\ result' = result
                 \o (IF ~inTable THEN <<TABLE_OPEN>> ELSE <<>>)
                 \o <<THEAD_OPEN, TR_OPEN>>
                 \o pushCells(headerCells(line), TH_OPEN, TH_CLOSE)
                 \o <<TR_CLOSE, THEAD_CLOSE, TBODY_OPEN>>
    /\ inTable' = TRUE
    /\ i' = i + 1
    /\ UNCHANGED <<appVars, storeVars, clock, calls>>
    /\ UNCHANGED <<toks, text, pc, lines, html>>

TableHeaderRow ==
    /\ pc = "table"
    /\ i <= Len(lines)
    /\ isHeaderRow(line)
    /\ result' = result
                 \o (IF ~inTable THEN <<TABLE_OPEN, THEAD_OPEN>> ELSE <<>>)
                 \o <<TR_OPEN>>
                 \o pushCells(headerCells(line), TH_OPEN, TH_CLOSE)
                 \o <<TR_CLOSE, THEAD_CLOSE, TBODY_OPEN>>
    /\ inTable' = TRUE
    /\ i' = i + 1
    /\ UNCHANGED <<appVars, storeVars, clock, calls>>
    /\ UNCHANGED <<toks, text, pc, lines, html>>

TableDataRow ==
    /\ pc = "table"
    /\ i <= Len(lines)
    /\ ~isHeaderRow(line)
    /\ isDataRow(line)
    /\ result' = result
                 \o (IF ~inTable THEN <<TABLE_OPEN, TBODY_OPEN>> ELSE <<>>)
                 \o <<TR_OPEN>>
                 \o pushCells(dataCells(line), TD_OPEN, TD_CLOSE)
                 \o <<TR_CLOSE>>
    /\ inTable' = TRUE
    /\ i' = i + 1
    /\ UNCHANGED <<appVars, storeVars, clock, calls>>
    /\ UNCHANGED <<toks, text, pc, lines, html>>

TableOtherLine ==
    /\ pc = "table"
    /\ i <= Len(lines)
    /\ ~isHeaderRow(line)
    /\ ~isDataRow(line)
    /\ result' = result
                 \o (IF inTable THEN <<TBODY_CLOSE, TABLE_CLOSE>> ELSE <<>>)
                 \o <<line>>
    /\ inTable' = FALSE
    /\ i' = i + 1
    /\ UNCHANGED <<appVars, storeVars, clock, calls>>
    /\ UNCHANGED <<toks, text, pc, lines, html>>

\* TableFinish without the closing of a table left open by the loop.
TableFinish_NoClose ==
    /\ pc = "table"
    /\ i > Len(lines)
    /\ html' = join(result, <<NL>>)
    /\ pc' = "code"
    /\ UNCHANGED <<appVars, storeVars, clock, calls>>
    /\ UNCHANGED <<toks, text, lines, i, result, inTable>>

\* After the loop: close an open table, join, and assign to html.
TableFinish ==
    /\ pc = "table"
    /\ i > Len(lines)
    /\ result' = result
                 \o (IF inTable THEN <<TBODY_CLOSE, TABLE_CLOSE>> ELSE <<>>)
    /\ html' = join(result', <<NL>>)
    /\ pc' = "code"
    /\ UNCHANGED <<appVars, storeVars, clock, calls>>
    /\ UNCHANGED <<toks, text, lines, i, inTable>>

----------------------------------------------------------------------------
(* parseCodeBlock: text.replace(/\{code(?::(\w+))?\}([\s\S]*?)\{\/code\}/g *)

\* The length of the longest run of \w characters of s starting at p.
RECURSIVE WordRun(_, _)
WordRun(s, p) ==
    IF p <= Len(s) /\ s[p] \in WordChars THEN 1 + WordRun(s, p + 1) ELSE 0

\* The opening delimiter at p: [ok, language, position after the '}'].
\* (?::(\w+))? is tried first with the group (greedy \w+, which must be
\* followed by '}'), then without it.
codeOpenAt(s, p) ==
    IF ~MatchesAt(s, p, CODE_START) THEN [ok |-> FALSE]
    ELSE LET q == p + Len(CODE_START)
             n == WordRun(s, q + 1)
         IN  IF MatchesAt(s, q, <<":">>) /\ n > 0
                /\ MatchesAt(s, q + 1 + n, <<"}">>)
             THEN [ok |-> TRUE, language |-> SubSeq(s, q + 1, q + n),
                   body |-> q + n + 2]
             ELSE IF MatchesAt(s, q, <<"}">>)
             THEN [ok |-> TRUE, language |-> <<>>, body |-> q + 1]
             ELSE [ok |-> FALSE]

\* The match of the whole pattern at p, taking an opening delimiter with
\* no closing delimiter after it as a block that runs to the end.
codeBlockMatchAt_ToEnd(s, p) ==
    LET o == codeOpenAt(s, p)
    IN  IF ~o.ok THEN [ok |-> FALSE]
        ELSE LET e == IndexFrom(s, CODE_END, o.body)
             IN  IF e = 0
                 THEN [ok |-> TRUE, language |-> o.language,
                       code |-> SubSeq(s, o.body, Len(s)),
                       end |-> Len(s) + 1]
                 ELSE [ok |-> TRUE, language |-> o.language,
                       code |-> SubSeq(s, o.body, e - 1),
                       end |-> e + Len(CODE_END)]

\* The match of the whole pattern at p: the body is the shortest one.
codeBlockMatchAt(s, p) ==
    LET o == codeOpenAt(s, p)
    IN  IF ~o.ok THEN [ok |-> FALSE]
        ELSE LET e == IndexFrom(s, CODE_END, o.body)
             IN  IF e = 0 THEN [ok |-> FALSE]
                 ELSE [ok |-> TRUE, language |-> o.language,
                       code |-> SubSeq(s, o.body, e - 1),
                       end |-> e + Len(CODE_END)]

\* The replacer callback without the trimming of the body.
codeBlockReplacement_NoTrim(language, code) ==
    LET lang == IF language = <<>> THEN DEFAULT_LANG ELSE language
        escapedCode == escapeHtml(code)
    IN  PRE_OPEN \o lang \o PRE_MID \o escapedCode \o PRE_CLOSE

\* The replacer callback of parseCodeBlock.
codeBlockReplacement(language, code) ==
    LET lang == IF language = <<>> THEN DEFAULT_LANG ELSE language
        escapedCode == escapeHtml(trim(code))
    IN  PRE_OPEN \o lang \o PRE_MID \o escapedCode \o PRE_CLOSE

\* The global replace: the leftmost match from p on is replaced and the
\* scan resumes after it; text outside matches is copied.
RECURSIVE codeBlockFrom(_, _)
codeBlockFrom(s, p) ==
    LET q == FirstOf({r \in p..Len(s) : codeBlockMatchAt(s, r).ok})
    IN  IF q = 0 THEN SubSeq(s, p, Len(s))
        ELSE LET m == codeBlockMatchAt(s, q)
             IN  SubSeq(s, p, q - 1)
                 \o codeBlockReplacement(m.language, m.code)
                 \o codeBlockFrom(s, m.end)

parseCodeBlock(s) == codeBlockFrom(s, 1)

----------------------------------------------------------------------------
(* parseInlineCode: text.replace(/&code\(([^)]+)\);/g, ...)                *)

\* inlineCodeMatchAt with the captured text trimmed, as the code-block
\* stage trims its body.
inlineCodeMatchAt_Trimmed(s, p) ==
    IF ~MatchesAt(s, p, ICODE_START) THEN [ok |-> FALSE]
    ELSE LET b == p + Len(ICODE_START)
             e == IndexFrom(s, <<")">>, b)
         IN  IF e > b /\ MatchesAt(s, e, ICODE_END)
             THEN [ok |-> TRUE, code |-> trim(SubSeq(s, b, e - 1)),
                   end |-> e + Len(ICODE_END)]
             ELSE [ok |-> FALSE]

\* [^)]+ is greedy and stops at the first ')', which must come after at
\* least one character and be followed by ';'.
inlineCodeMatchAt(s, p) ==
    IF ~MatchesAt(s, p, ICODE_START) THEN [ok |-> FALSE]
    ELSE LET b == p + Len(ICODE_START)
             e == IndexFrom(s, <<")">>, b)
         IN  IF e > b /\ MatchesAt(s, e, ICODE_END)
             THEN [ok |-> TRUE, code |-> SubSeq(s, b, e - 1),
                   end |-> e + Len(ICODE_END)]
             ELSE [ok |-> FALSE]

RECURSIVE inlineCodeFrom(_, _)
inlineCodeFrom(s, p) ==
    LET q == FirstOf({r \in p..Len(s) : inlineCodeMatchAt(s, r).ok})
    IN  IF q = 0 THEN SubSeq(s, p, Len(s))
        ELSE LET m == inlineCodeMatchAt(s, q)
             IN  SubSeq(s, p, q - 1)
                 \o ICODE_OPEN \o escapeHtml(m.code) \o ICODE_CLOSE
                 \o inlineCodeFrom(s, m.end)

parseInlineCode(s) == inlineCodeFrom(s, 1)

----------------------------------------------------------------------------
(* parseBasicMarkdown                                                      *)

\* The match of \*\*(.*?)\*\* at p: the position of the closing '**', which
\* is the nearest one and has no line terminator before it, or 0.
boldEnd(s, p) ==
    IF ~MatchesAt(s, p, STARS) THEN 0
    ELSE LET e == IndexFrom(s, STARS, p + Len(STARS))
         IN  IF e > 0 /\ \A k \in (p + Len(STARS))..(e - 1) :
                           s[k] \notin LineTerminators
             THEN e ELSE 0

\* processedLine.replace(/\*\*(.*?)\*\*/g, '<strong>$1</strong>')
RECURSIVE boldFrom(_, _)
boldFrom(s, p) ==
    LET q == FirstOf({r \in p..Len(s) : boldEnd(s, r) > 0})
    IN  IF q = 0 THEN SubSeq(s, p, Len(s))
        ELSE LET e == boldEnd(s, q)
             IN  SubSeq(s, p, q - 1)
                 \o STRONG_OPEN \o SubSeq(s, q + Len(STARS), e - 1)
                 \o STRONG_CLOSE \o boldFrom(s, e + Len(STARS))

replaceBold(s) == boldFrom(s, 1)

\* processLine with the remainder of a '## ' line taken from offset 2, the
\* offset of the '# ' rule.
processLine_H2Offset(l) ==
    LET processedLine == replaceBold(l)
    IN  IF startsWith(l, <<"#", " ">>)
        THEN H1_OPEN \o substring(processedLine, 2) \o H1_CLOSE
        ELSE IF startsWith(l, <<"#", "#", " ">>)
        THEN H2_OPEN \o substring(processedLine, 2) \o H2_CLOSE
        ELSE IF startsWith(l, <<"#", "#", "#", " ">>)
        THEN H3_OPEN \o substring(processedLine, 4) \o H3_CLOSE
        ELSE IF startsWith(l, <<"-", " ">>)
        THEN LIST_OPEN \o substring(processedLine, 2) \o P_CLOSE
        ELSE IF trim(processedLine) = <<>>
        THEN SPACER
        ELSE IF ~startsWith(processedLine, <<"<">>)
        THEN P_OPEN \o processedLine \o P_CLOSE
        ELSE processedLine

\* processLine with every non-blank line that is no heading and no list
\* item wrapped in a paragraph, a line that starts with '<' included.
processLine_AlwaysParagraph(l) ==
    LET processedLine == replaceBold(l)
    IN  IF startsWith(l, <<"#", " ">>)
        THEN H1_OPEN \o substring(processedLine, 2) \o H1_CLOSE
        ELSE IF startsWith(l, <<"#", "#", " ">>)
        THEN H2_OPEN \o substring(processedLine, 3) \o H2_CLOSE
        ELSE IF startsWith(l, <<"#", "#", "#", " ">>)
        THEN H3_OPEN \o substring(processedLine, 4) \o H3_CLOSE
        ELSE IF startsWith(l, <<"-", " ">>)
        THEN LIST_OPEN \o substring(processedLine, 2) \o P_CLOSE
        ELSE IF trim(processedLine) = <<>>
        THEN SPACER
        ELSE P_OPEN \o processedLine \o P_CLOSE

\* The body of the for loop: the output line of one input line.
processLine(l) ==
    LET processedLine == replaceBold(l)
    IN  IF startsWith(l, <<"#", " ">>)
        THEN H1_OPEN \o substring(processedLine, 2) \o H1_CLOSE
        ELSE IF startsWith(l, <<"#", "#", " ">>)
        THEN H2_OPEN \o substring(processedLine, 3) \o H2_CLOSE
        ELSE IF startsWith(l, <<"#", "#", "#", " ">>)
        THEN H3_OPEN \o substring(processedLine, 4) \o H3_CLOSE
        ELSE IF startsWith(l, <<"-", " ">>)
        THEN LIST_OPEN \o substring(processedLine, 2) \o P_CLOSE
        ELSE IF trim(processedLine) = <<>>
        THEN SPACER
        ELSE IF ~startsWith(processedLine, <<"<">>)
        THEN P_OPEN \o processedLine \o P_CLOSE
        ELSE processedLine

RECURSIVE processLines(_)
processLines(ls) ==
    IF ls = <<>> THEN <<>>
    ELSE <<processLine(Head(ls))>> \o processLines(Tail(ls))

parseBasicMarkdown(s) == join(processLines(split(s, <<NL>>)), <<NL>>)

----------------------------------------------------------------------------
(* parseBacklogWiki after the table stage: one step per stage.             *)

\* The code-block stage raising an error on an opening delimiter that has
\* no closing delimiter after it, instead of leaving it in place.
CodeBlockStage_FailsOnUnterminated ==
    /\ pc = "code"
    /\ IF \A p \in 1..Len(html) :
              codeOpenAt(html, p).ok => codeBlockMatchAt(html, p).ok
       THEN html' = parseCodeBlock(html) /\ pc' = "inline"
       ELSE html' = html /\ pc' = "failed"
    /\ UNCHANGED <<appVars, storeVars, clock, calls>>
    /\ UNCHANGED <<toks, text, lines, i, result, inTable>>

CodeBlockStage ==
    /\ pc = "code"
    /\ html' = parseCodeBlock(html)
    /\ pc' = "inline"
    /\ UNCHANGED <<appVars, storeVars, clock, calls>>
    /\ UNCHANGED <<toks, text, lines, i, result, inTable>>

InlineCodeStage ==
    /\ pc = "inline"
    /\ html' = parseInlineCode(html)
    /\ pc' = "basic"
    /\ UNCHANGED <<appVars, storeVars, clock, calls>>
    /\ UNCHANGED <<toks, text, lines, i, result, inTable>>

BasicMarkdownStage ==
    /\ pc = "basic"
    /\ html' = parseBasicMarkdown(html)
    /\ pc' = "done"
    /\ calls' = Append(calls, [text |-> text, html |-> html'])
    /\ UNCHANGED <<appVars, storeVars, clock>>
    /\ UNCHANGED <<toks, text, lines, i, result, inTable>>

----------------------------------------------------------------------------
(* The converter as a function of its text, for the calls made on texts    *)
(* that are not first inputs (a call on the converter's own output).       *)

\* The for loop of parseTable from line k on, and what follows the loop.
RECURSIVE parseTableFrom(_, _, _, _)
parseTableFrom(ls, k, res, inT) ==
    IF k > Len(ls)
    THEN res \o (IF inT THEN <<TBODY_CLOSE, TABLE_CLOSE>> ELSE <<>>)
    ELSE LET l == trim(ls[k])
         IN  IF isHeaderRow(l)
             THEN parseTableFrom(ls, k + 1,
                      res
                      \o (IF ~inT THEN <<TABLE_OPEN, THEAD_OPEN>> ELSE <<>>)
                      \o <<TR_OPEN>>
                      \o pushCells(headerCells(l), TH_OPEN, TH_CLOSE)
                      \o <<TR_CLOSE, THEAD_CLOSE, TBODY_OPEN>>,
                      TRUE)
             ELSE IF isDataRow(l)
             THEN parseTableFrom(ls, k + 1,
                      res
                      \o (IF ~inT THEN <<TABLE_OPEN, TBODY_OPEN>> ELSE <<>>)
                      \o <<TR_OPEN>>
                      \o pushCells(dataCells(l), TD_OPEN, TD_CLOSE)
                      \o <<TR_CLOSE>>,
                      TRUE)
             ELSE parseTableFrom(ls, k + 1,
                      res
                      \o (IF inT THEN <<TBODY_CLOSE, TABLE_CLOSE>> ELSE <<>>)
                      \o <<l>>,
                      FALSE)

parseTable(s) == join(parseTableFrom(split(s, <<NL>>), 1, <<>>, FALSE), <<NL>>)

parseBacklogWiki(s) ==
    parseBasicMarkdown(parseInlineCode(parseCodeBlock(parseTable(s))))

----------------------------------------------------------------------------
(* The texts the converter is called with.  A text is written as a list    *)
(* of tokens: a marker (PLAIN, HEADER, DATA) starts a new line of that     *)
(* kind and the fragments after it are the line's pieces (the cells of a   *)
(* table row).  Free-form texts and fenced texts use PLAIN lines only;     *)
(* grids are table rows and plain lines made of cell texts.  Inline-code   *)
(* texts and heading texts are PLAIN lines of the fragments of those       *)
(* constructs; escape texts are one inline-code span or one fence around   *)
(* special characters, and prose texts are one heading, list item,         *)
(* paragraph or table row of special characters.                           *)

MaxToks == 4

MaxFence == 6

MaxGrid == 6

MaxInline == 5

MaxHead == 4

MaxEsc == 2

PLAIN == <<"PLAIN">>

HEADER == <<"HEADER">>

DATA == <<"DATA">>

Markers == {PLAIN, HEADER, DATA}

FENCE_OPEN == <<"{", "c", "o", "d", "e", "}">>

FENCE_OPEN_JS == <<"{", "c", "o", "d", "e", ":", "j", "s", "}">>

BOLD_B == <<"*", "*", "b", "*", "*">>

FreeFrags ==
    { <<"a">>, <<" ">>, <<"<">>, <<"|">>, <<"|", "|">>, <<"#", " ">>,
      <<"-", " ">>, STARS, BOLD_B, FENCE_OPEN, CODE_END, ICODE_START,
      ICODE_END }

FenceFrags == { FENCE_OPEN, FENCE_OPEN_JS, CODE_END, <<"<">>, <<" ">> }

CellFrags == { <<>>, <<" ", "a">> }

TokSeqs(S, n) == UNION { [1..k -> S] : k \in 0..n }

\* Every line has a marker, and a table row has at least one cell.
WellFormedToks(t) ==
    /\ t # <<>> => t[1] \in Markers
    /\ \A k \in 1..Len(t) :
          t[k] \in {HEADER, DATA} => k < Len(t) /\ t[k + 1] \notin Markers

FreeInputs ==
    { t \in TokSeqs(FreeFrags \cup {PLAIN}, MaxToks) : WellFormedToks(t) }

FenceInputs ==
    { t \in TokSeqs(FenceFrags \cup {PLAIN}, MaxFence) : WellFormedToks(t) }

GridInputs ==
    { t \in TokSeqs(CellFrags \cup Markers, MaxGrid) : WellFormedToks(t) }

InlineFrags == { ICODE_START, ICODE_END, <<"&">>, <<" ">>, <<")">> }

InlineInputs ==
    { t \in TokSeqs(InlineFrags \cup {PLAIN}, MaxInline) : WellFormedToks(t) }

HeadFrags == { <<"#">>, <<"#", "#">>, <<" ", "a">>, <<"-", " ">>, BOLD_B }

HeadInputs ==
    { t \in TokSeqs(HeadFrags \cup {PLAIN}, MaxHead) : WellFormedToks(t) }

EscFrags == { <<"&">>, <<"<">>, <<">">>, <<"\"">>, <<"'">>, <<"a">> }

EscBodies == TokSeqs(EscFrags, MaxEsc) \ {<<>>}

EscInputs ==
    { <<PLAIN, w[1]>> \o b \o <<w[2]>> :
        w \in {<<ICODE_START, ICODE_END>>, <<FENCE_OPEN, CODE_END>>},
        b \in EscBodies }

ProsePrefixes == { <<>>, << <<"#", " ">> >>, << <<"-", " ">> >> }

ProseInputs ==
    { <<m>> \o pre \o b : m \in Markers, pre \in ProsePrefixes,
                            b \in EscBodies }

Inputs ==
    FreeInputs \cup FenceInputs \cup GridInputs \cup InlineInputs
        \cup HeadInputs \cup EscInputs \cup ProseInputs

\* The lines of a token list: [kind, cells] per marker.
RECURSIVE RowsOf(_)
RowsOf(t) ==
    IF t = <<>> THEN <<>>
    ELSE LET init == RowsOf(SubSeq(t, 1, Len(t) - 1))
             last == t[Len(t)]
         IN  IF last \in Markers
             THEN Append(init, [kind |-> last, cells |-> <<>>])
             ELSE [init EXCEPT ![Len(init)].cells = Append(@, last)]

RenderRow(r) ==
    IF r.kind = HEADER
    THEN <<"|", "|">> \o join(r.cells, <<"|", "|">>) \o <<"|", "|">>
    ELSE IF r.kind = DATA
    THEN <<"|">> \o join(r.cells, <<"|">>) \o <<"|">>
    ELSE join(r.cells, <<>>)

RECURSIVE RenderRows(_)
RenderRows(rs) ==
    IF rs = <<>> THEN <<>> ELSE <<RenderRow(Head(rs))>> \o RenderRows(Tail(rs))

TextOf(t) == join(RenderRows(RowsOf(t)), <<NL>>)

----------------------------------------------------------------------------
(* The parts of the app at rest: what a specification of one part holds    *)
(* the other parts at.                                                     *)

Usernames == {"admin", "u1"}

\* The other tabs of the browser in which the App is open.
OtherTabs == {"B", "C"}

\* The decimal numerals of the clock values of the model.
Decimal == <<"0", "1", "2", "3", "4", "5", "6", "7", "8", "9">>

\* Date.now().toString()
toString(n) == Decimal[n + 1]

\* parseInt of a numeral written by toString.
parseInt(s) == CHOOSE n \in 0..9 : Decimal[n + 1] = s

User(id, username, role) == [id |-> id, username |-> username, role |-> role]

\* null, where a User is expected.
NoUser == User("none", "none", "none")

\* The user store after UserManager.initializeDefaultAdmin() at time 0.
DefaultUsers == <<User(toString(0), "admin", "admin")>>

\* The initial authState of useAuth (null written as "none").
LoggedOut == [isLoggedIn |-> FALSE, userRole |-> "none", userId |-> "none"]

\* localStorage without the keys current_user_id and login_time.
NoSession == [current_user_id |-> "none", login_time |-> "none"]

NoCall == [op |-> "none", arg |-> "none", ret |-> "none"]

\* The App as mounted with nobody logged in, no timer pending and no
\* other tab logged in.
AppAtRest ==
    /\ users = DefaultUsers
    /\ session = NoSession
    /\ authState = LoggedOut
    /\ currentPage = "list"
    /\ previousPage = "list"
    /\ selectedArticleId = 0
    /\ editorMode = "create"
    /\ timers = [u \in Usernames |-> 0]
    /\ otherAuth = [t \in OtherTabs |-> LoggedOut]
    /\ lastCall = NoCall

\* localStorage without the five keys: getFromStorage returns [].
StoresEmpty ==
    /\ articles = <<>>
    /\ bookmarks = <<>>
    /\ readLater = <<>>
    /\ likes = <<>>
    /\ views = <<>>

\* No call of the converter is under way and none has returned.
ConverterAtRest ==
    /\ toks = <<>>
    /\ text = <<>>
    /\ html = <<>>
    /\ pc = "idle"
    /\ lines = <<>>
    /\ i = 1
    /\ result = <<>>
    /\ inTable = FALSE
    /\ calls = <<>>

----------------------------------------------------------------------------

\* parseBacklogWiki is entered with text; parseTable has split it.
Init ==
    /\ toks \in Inputs
    /\ text = TextOf(toks)
    /\ html = text
    /\ pc = "table"
    /\ lines = split(text, <<NL>>)
    /\ result = <<>>
    /\ inTable = FALSE
    /\ i = 1
    /\ calls = <<>>
    /\ AppAtRest
    /\ StoresEmpty
    /\ clock = 0

Next ==
    \/ TableHeaderRow
    \/ TableDataRow
    \/ TableOtherLine
    \/ TableFinish
    \/ CodeBlockStage
    \/ InlineCodeStage
    \/ BasicMarkdownStage

Spec == Init /\ [][Next]_vars

----------------------------------------------------------------------------
(* Calls of the converter one after the other.  The locals of a call are   *)
(* the model's variables, so a later call starts from what the call        *)
(* before it left in them.                                                 *)

MaxCalls == 3

\* The texts of the later calls: prose, table rows that leave inTable
\* true, a header row with a data row, a fence, a bold span, the empty text.
CallInputs ==
    { <<>>,
      <<PLAIN, <<"a">> >>,
      <<DATA, <<" ", "a">> >>,
      <<HEADER, <<" ", "a">>, DATA, <<" ", "a">> >>,
      <<PLAIN, FENCE_OPEN, <<"<">>, CODE_END>>,
      <<PLAIN, BOLD_B>> }

\* CallAgain with inTable kept from the call before, as if the flag were
\* declared outside parseTable.
CallAgain_KeepsInTable ==
    /\ pc = "done"
    /\ Len(calls) < MaxCalls
    /\ toks' \in CallInputs
    /\ text' = TextOf(toks')
    /\ html' = text'
    /\ pc' = "table"
    /\ lines' = split(text', <<NL>>)
    /\ result' = <<>>
    /\ i' = 1
    /\ UNCHANGED <<appVars, storeVars, clock, calls, inTable>>

\* parseBacklogWiki is entered again: html, lines, result, inTable and i
\* are fresh locals of the new call.
CallAgain ==
    /\ pc = "done"
    /\ Len(calls) < MaxCalls
    /\ toks' \in CallInputs
    /\ text' = TextOf(toks')
    /\ html' = text'
    /\ pc' = "table"
    /\ lines' = split(text', <<NL>>)
    /\ result' = <<>>
    /\ inTable' = FALSE
    /\ i' = 1
    /\ UNCHANGED <<appVars, storeVars, clock, calls>>

InitCalls ==
    /\ toks \in CallInputs
    /\ text = TextOf(toks)
    /\ html = text
    /\ pc = "table"
    /\ lines = split(text, <<NL>>)
    /\ result = <<>>
    /\ inTable = FALSE
    /\ i = 1
    /\ calls = <<>>
    /\ AppAtRest
    /\ StoresEmpty
    /\ clock = 0

NextCalls ==
    \/ TableHeaderRow
    \/ TableDataRow
    \/ TableOtherLine
    \/ TableFinish
    \/ CodeBlockStage
    \/ InlineCodeStage
    \/ BasicMarkdownStage
    \/ CallAgain

SpecCalls == InitCalls /\ [][NextCalls]_vars

----------------------------------------------------------------------------
(* The App component: authentication, navigation and the redirect timers.  *)
(* Every handler is one step.  handleLoginSuccess starts a timer whose     *)
(* callback is a step of its own, taken at any later time.                 *)

MaxTimers == 1

\* The largest value of Date.now() (it stays a single numeral).
MaxClock == 3

\* The 24 hours of the source, in the milliseconds of the model.
DAY == 2

\* The most users the store holds.
MaxUsers == 2

Pages ==
    {"list", "search", "management", "dashboard", "mypage", "detail",
     "editor", "photos", "user-management"}

\* The pages handleNavigate checks the role for.
AdminPages == {"management", "dashboard", "editor", "user-management"}

\* The cases of the switch of handleNavigate.
NavigateCases == Pages \ {"detail"}

ArticleIds == {1, 2}

\* The pages whose component is given handleViewArticle.
ViewingPages == {"list", "search", "mypage", "photos"}

isLoggedIn == authState.isLoggedIn

isAdmin == authState.userRole = "admin"

Call(op, arg, ret) == [op |-> op, arg |-> arg, ret |-> ret]

\* setAuthState of login and register: the session of a user.
LoggedInAs(id, role) ==
    [isLoggedIn |-> TRUE, userRole |-> role, userId |-> id]

\* localStorage.setItem of current_user_id and of login_time.
SessionOf(id, now) == [current_user_id |-> id, login_time |-> toString(now)]

\* UserManager.authenticate(username, password): ok says whether the
\* password given is the one stored with the username.
authenticate(us, username, ok) ==
    LET hits == {k \in 1..Len(us) : us[k].username = username /\ ok}
    IN  IF hits = {} THEN NoUser ELSE us[FirstOf(hits)]

\* UserManager.getById(userId).
getById(us, id) ==
    LET hits == {k \in 1..Len(us) : us[k].id = id}
    IN  IF hits = {} THEN NoUser ELSE us[FirstOf(hits)]

\* UserManager.register without the duplicate test: no user is ever found.
existingUser_NeverFound(us, username) == FALSE

\* UserManager.register: the existingUser test, which makes it throw.
existingUser(us, username) == \E k \in 1..Len(us) : us[k].username = username

\* UserManager.register: the store after users.push(newUser) and save.
registered(us, username, role, now) ==
    Append(us, User(toString(now), username, role))

\* handleLoginSuccess(username, password, false): login() authenticates
\* against the user store; on success the session is set and stored and
\* the redirect timer is started.
HandleLogin ==
    /\ ~isLoggedIn
    /\ \E u \in Usernames, ok \in BOOLEAN :
          LET user == authenticate(users, u, ok)
          IN  IF user # NoUser
              THEN /\ timers[u] < MaxTimers
                   /\ authState' = LoggedInAs(user.id, user.role)
                   /\ session' = SessionOf(user.id, clock)
                   /\ timers' = [timers EXCEPT ![u] = @ + 1]
                   /\ lastCall' = Call("login", u, TRUE)
              ELSE /\ lastCall' = Call("login", u, FALSE)
                   /\ UNCHANGED <<authState, session, timers>>
    /\ UNCHANGED <<users, currentPage, previousPage, selectedArticleId,
                   editorMode, otherAuth>>
    /\ UNCHANGED <<converterVars, storeVars, clock>>

\* handleLoginSuccess(username, password, true): register() adds a user of
\* role 'user' unless the username is taken, sets and stores the session,
\* and the redirect timer is started.  The form is submitted later than
\* every earlier call: Date.now() has advanced.
HandleRegister ==
    /\ ~isLoggedIn
    /\ clock < MaxClock
    /\ clock' = clock + 1
    /\ \E u \in Usernames :
          IF ~existingUser(users, u)
          THEN /\ timers[u] < MaxTimers
               /\ Len(users) < MaxUsers
               /\ users' = registered(users, u, "user", clock')
               /\ authState' = LoggedInAs(toString(clock'), "user")
               /\ session' = SessionOf(toString(clock'), clock')
               /\ timers' = [timers EXCEPT ![u] = @ + 1]
               /\ lastCall' = Call("register", u, TRUE)
          ELSE /\ lastCall' = Call("register", u, FALSE)
               /\ UNCHANGED <<users, authState, session, timers>>
    /\ UNCHANGED <<currentPage, previousPage, selectedArticleId, editorMode,
                   otherAuth>>
    /\ UNCHANGED <<converterVars, storeVars>>

\* The callback of the timer of handleLoginSuccess: the user of the login
\* that started it is authenticated again, with the password that was
\* right then, and the page is set by role, whoever is logged in by now.
RedirectTimerFires ==
    /\ \E u \in Usernames :
          /\ timers[u] > 0
          /\ timers' = [timers EXCEPT ![u] = @ - 1]
          /\ currentPage' = IF authenticate(users, u, TRUE).role = "admin"
                            THEN "dashboard" ELSE "list"
          /\ lastCall' = Call("timer", u, "none")
    /\ UNCHANGED <<users, session, authState, previousPage,
                   selectedArticleId, editorMode, otherAuth>>
    /\ UNCHANGED <<converterVars, storeVars, clock>>

\* handleLogout, and the effect on isLoggedIn that repeats its reset.
HandleLogout ==
    /\ isLoggedIn
    /\ authState' = LoggedOut
    /\ session' = NoSession
    /\ currentPage' = "list"
    /\ previousPage' = "list"
    /\ selectedArticleId' = 0
    /\ editorMode' = "create"
    /\ lastCall' = Call("logout", "none", "none")
    /\ UNCHANGED <<users, timers, otherAuth>>
    /\ UNCHANGED <<converterVars, storeVars, clock>>

\* handleNavigate without the role check.
HandleNavigate_NoRoleCheck ==
    /\ isLoggedIn
    /\ \E page \in Pages :
          /\ previousPage' = IF currentPage # "detail" THEN currentPage
                             ELSE previousPage
          /\ currentPage' = IF page \in NavigateCases THEN page ELSE "list"
          /\ editorMode' = IF page = "editor" THEN "create" ELSE editorMode
          /\ lastCall' = Call("navigate", page, "done")
    /\ UNCHANGED <<users, session, authState, selectedArticleId, timers,
                   otherAuth>>
    /\ UNCHANGED <<converterVars, storeVars, clock>>

\* handleNavigate(page).
HandleNavigate ==
    /\ isLoggedIn
    /\ \E page \in Pages :
          IF page \in AdminPages /\ ~isAdmin
          THEN /\ lastCall' = Call("navigate", page, "denied")
               /\ UNCHANGED <<currentPage, previousPage, editorMode>>
          ELSE /\ previousPage' = IF currentPage # "detail" THEN currentPage
                                  ELSE previousPage
               /\ currentPage' = IF page \in NavigateCases THEN page
                                 ELSE "list"
               /\ editorMode' = IF page = "editor" THEN "create"
                                ELSE editorMode
               /\ lastCall' = Call("navigate", page, "done")
    /\ UNCHANGED <<users, session, authState, selectedArticleId, timers,
                   otherAuth>>
    /\ UNCHANGED <<converterVars, storeVars, clock>>

\* handleViewArticle(articleId), from a page that lists articles.
HandleViewArticle ==
    /\ isLoggedIn
    /\ currentPage \in ViewingPages
    /\ \E id \in ArticleIds :
          /\ selectedArticleId' = id
          /\ lastCall' = Call("view", id, "none")
    /\ previousPage' = currentPage
    /\ currentPage' = "detail"
    /\ UNCHANGED <<users, session, authState, editorMode, timers, otherAuth>>
    /\ UNCHANGED <<converterVars, storeVars, clock>>

\* handleBackFromDetail, from the detail page.
HandleBackFromDetail ==
    /\ isLoggedIn
    /\ currentPage = "detail"
    /\ currentPage' = previousPage
    /\ selectedArticleId' = 0
    /\ lastCall' = Call("back", "none", "none")
    /\ UNCHANGED <<users, session, authState, previousPage, editorMode,
                   timers, otherAuth>>
    /\ UNCHANGED <<converterVars, storeVars, clock>>

\* handleEditArticle(articleId).
HandleEditArticle ==
    /\ isLoggedIn
    /\ \E id \in ArticleIds :
          IF ~isAdmin
          THEN /\ lastCall' = Call("edit", id, "denied")
               /\ UNCHANGED <<currentPage, selectedArticleId, editorMode>>
          ELSE /\ selectedArticleId' = id
               /\ editorMode' = "edit"
               /\ currentPage' = "editor"
               /\ lastCall' = Call("edit", id, "done")
    /\ UNCHANGED <<users, session, authState, previousPage, timers,
                   otherAuth>>
    /\ UNCHANGED <<converterVars, storeVars, clock>>

\* onSave of the ArticleEditor, which is rendered for an admin only.
HandleEditorSave ==
    /\ isLoggedIn
    /\ isAdmin
    /\ currentPage = "editor"
    /\ currentPage' = "management"
    /\ lastCall' = Call("save", "none", "none")
    /\ UNCHANGED <<users, session, authState, previousPage,
                   selectedArticleId, editorMode, timers, otherAuth>>
    /\ UNCHANGED <<converterVars, storeVars, clock>>

\* renderMainContent with the dashboard rendered for whoever is on it.
renderMainContent_DashboardUnchecked ==
    IF ~isLoggedIn THEN "AdminLogin"
    ELSE IF authState.userId = "none" THEN "login-required"
    ELSE IF currentPage = "search" THEN "ArticleSearch"
    ELSE IF currentPage = "management"
    THEN (IF isAdmin THEN "ArticleManagement" ELSE "admin-required")
    ELSE IF currentPage = "dashboard" THEN "Dashboard"
    ELSE IF currentPage = "user-management"
    THEN (IF isAdmin THEN "UserManagement" ELSE "admin-required")
    ELSE IF currentPage = "mypage" THEN "MyPage"
    ELSE IF currentPage = "detail" THEN "ArticleDetail"
    ELSE IF currentPage = "editor"
    THEN (IF isAdmin THEN "ArticleEditor" ELSE "admin-required")
    ELSE IF currentPage = "photos" THEN "Photos"
    ELSE "ArticleList"

\* What App renders as its main content: the login screen while nobody is
\* logged in, else the component of renderMainContent.
renderMainContent ==
    IF ~isLoggedIn THEN "AdminLogin"
    ELSE IF authState.userId = "none" THEN "login-required"
    ELSE IF currentPage = "search" THEN "ArticleSearch"
    ELSE IF currentPage = "management"
    THEN (IF isAdmin THEN "ArticleManagement" ELSE "admin-required")
    ELSE IF currentPage = "dashboard"
    THEN (IF isAdmin THEN "Dashboard" ELSE "admin-required")
    ELSE IF currentPage = "user-management"
    THEN (IF isAdmin THEN "UserManagement" ELSE "admin-required")
    ELSE IF currentPage = "mypage" THEN "MyPage"
    ELSE IF currentPage = "detail" THEN "ArticleDetail"
    ELSE IF currentPage = "editor"
    THEN (IF isAdmin THEN "ArticleEditor" ELSE "admin-required")
    ELSE IF currentPage = "photos" THEN "Photos"
    ELSE "ArticleList"

AppInit ==
    /\ AppAtRest
    /\ StoresEmpty
    /\ ConverterAtRest
    /\ clock = 0

AppNext ==
    \/ HandleLogin
    \/ HandleRegister
    \/ RedirectTimerFires
    \/ HandleLogout
    \/ HandleNavigate
    \/ HandleViewArticle
    \/ HandleBackFromDetail
    \/ HandleEditArticle
    \/ HandleEditorSave

AppSpec == AppInit /\ [][AppNext]_vars

----------------------------------------------------------------------------
(* Sessions and the user store.  The App of this tab is started (or        *)
(* reloaded) by Mount; the other tabs of the browser run the same App on   *)
(* the same localStorage, each with the session it cached at its login.    *)
(* Of the other tabs the model keeps what reaches localStorage: login,     *)
(* logout and the two handlers of the user-management page.                *)

\* useAuth and App after an effect has thrown: React has removed the tree.
Unmounted == [isLoggedIn |-> FALSE, userRole |-> "none", userId |-> "unmounted"]

\* The App of this tab is rendered: its handlers can be called.
AppIsUp == authState # Unmounted

\* users.some(user => user.role === 'admin')
adminExists(us) == \E k \in 1..Len(us) : us[k].role = "admin"

\* UserManager.initializeDefaultAdmin() throws: register('admin', ...) is
\* called and finds the username taken.
initializeDefaultAdminThrows(us) == ~adminExists(us) /\ existingUser(us, "admin")

\* The user store after UserManager.initializeDefaultAdmin() at time now.
initializeDefaultAdmin(us, now) ==
    IF adminExists(us) \/ existingUser(us, "admin") THEN us
    ELSE registered(us, "admin", "admin", now)

\* The restore effect of useAuth without the 24-hour test.
sessionIsFresh_NoExpiry(s, now) ==
    /\ s.current_user_id # "none"
    /\ s.login_time # "none"

\* The restore effect of useAuth: both keys are stored and less than 24
\* hours have passed since login_time.
sessionIsFresh(s, now) ==
    /\ s.current_user_id # "none"
    /\ s.login_time # "none"
    /\ now - parseInt(s.login_time) < DAY

\* The restore effect of useAuth: the user it restores, or null.
restoredUser(us, s, now) ==
    IF sessionIsFresh(s, now) THEN getById(us, s.current_user_id) ELSE NoUser

\* The restore effect of useAuth: the keys it leaves.
keysAfterRestore(us, s, now) ==
    IF /\ s.current_user_id # "none"
       /\ s.login_time # "none"
       /\ restoredUser(us, s, now) = NoUser
    THEN NoSession ELSE s

\* The restore effect of useAuth: the branch it takes.
restoreOutcome(us, s, now) ==
    IF s.current_user_id = "none" \/ s.login_time = "none" THEN "none"
    ELSE IF ~sessionIsFresh(s, now) THEN "expired"
    ELSE IF restoredUser(us, s, now) = NoUser THEN "missing"
    ELSE "restored"

\* The App is loaded: the state of useAuth and of App is the initial one
\* and no timer of an earlier load is left; the restore effect of useAuth
\* runs, then the mount effect of App, which calls initializeDefaultAdmin
\* (useAuth calls it too unless it has restored a session).  Loading takes
\* time: Date.now() has advanced.  The sample articles the mount effect
\* adds go to the article store, which the session does not read.
Mount ==
    /\ clock < MaxClock
    /\ clock' = clock + 1
    /\ LET user == restoredUser(users, session, clock')
           throws == initializeDefaultAdminThrows(users)
       IN  /\ session' = keysAfterRestore(users, session, clock')
           /\ users' = initializeDefaultAdmin(users, clock')
           /\ authState' = IF throws THEN Unmounted
                           ELSE IF user # NoUser
                           THEN LoggedInAs(user.id, user.role)
                           ELSE LoggedOut
           /\ lastCall' = Call("mount",
                               restoreOutcome(users, session, clock'),
                               IF throws THEN "threw" ELSE "returned")
    /\ currentPage' = "list"
    /\ previousPage' = "list"
    /\ selectedArticleId' = 0
    /\ editorMode' = "create"
    /\ timers' = [u \in Usernames |-> 0]
    /\ UNCHANGED otherAuth
    /\ UNCHANGED <<converterVars, storeVars>>

\* users[userIndex].role = newRole for the first user with the id, saved.
RoleChanged(us, id, newRole) ==
    LET k == FirstOf({j \in 1..Len(us) : us[j].id = id})
    IN  IF k = 0 THEN us ELSE [us EXCEPT ![k].role = newRole]

\* users.filter(user => user.id !== deleteUserId)
RECURSIVE WithoutUser(_, _)
WithoutUser(us, id) ==
    IF us = <<>> THEN <<>>
    ELSE (IF Head(us).id # id THEN <<Head(us)>> ELSE <<>>)
         \o WithoutUser(Tail(us), id)

\* The user-management page is rendered in the other tab t: the session
\* it cached is an admin's.
OtherTabManages(t) ==
    otherAuth[t].isLoggedIn /\ otherAuth[t].userRole = "admin"

\* login() in another tab, one of tabs: the session is cached there and
\* its keys are stored.
OtherTabLogin(tabs) ==
    /\ \E t \in tabs, u \in Usernames :
          LET user == authenticate(users, u, TRUE)
          IN  /\ ~otherAuth[t].isLoggedIn
              /\ user # NoUser
              /\ otherAuth' = [otherAuth EXCEPT
                                  ![t] = LoggedInAs(user.id, user.role)]
              /\ session' = SessionOf(user.id, clock)
              /\ lastCall' = Call("other.login", u, TRUE)
    /\ UNCHANGED <<users, authState, currentPage, previousPage,
                   selectedArticleId, editorMode, timers>>
    /\ UNCHANGED <<converterVars, storeVars, clock>>

\* logout() in another tab.
OtherTabLogout(tabs) ==
    /\ \E t \in tabs :
          /\ otherAuth[t].isLoggedIn
          /\ otherAuth' = [otherAuth EXCEPT ![t] = LoggedOut]
          /\ lastCall' = Call("other.logout", "none", "none")
    /\ session' = NoSession
    /\ UNCHANGED <<users, authState, currentPage, previousPage,
                   selectedArticleId, editorMode, timers>>
    /\ UNCHANGED <<converterVars, storeVars, clock>>

\* handleRoleChange(userId, newRole) in another tab, for a user of the
\* store other than the tab's own (whose select is disabled) and a role
\* other than the one selected.
OtherTabRoleChange(tabs) ==
    /\ \E t \in tabs, k \in 1..Len(users), newRole \in {"admin", "user"} :
          /\ OtherTabManages(t)
          /\ users[k].id # otherAuth[t].userId
          /\ users[k].role # newRole
          /\ users' = RoleChanged(users, users[k].id, newRole)
          /\ lastCall' = Call("other.roleChange", users[k].id, newRole)
    /\ UNCHANGED <<session, authState, currentPage, previousPage,
                   selectedArticleId, editorMode, timers, otherAuth>>
    /\ UNCHANGED <<converterVars, storeVars, clock>>

\* confirmDeleteUser(userId) and handleDeleteUser() in another tab, for a
\* user of the store other than the tab's own.
OtherTabDeleteUser(tabs) ==
    /\ \E t \in tabs, k \in 1..Len(users) :
          /\ OtherTabManages(t)
          /\ users[k].id # otherAuth[t].userId
          /\ users' = WithoutUser(users, users[k].id)
          /\ lastCall' = Call("other.deleteUser", users[k].id, "none")
    /\ UNCHANGED <<session, authState, currentPage, previousPage,
                   selectedArticleId, editorMode, timers, otherAuth>>
    /\ UNCHANGED <<converterVars, storeVars, clock>>

\* Time passes: Date.now() returns a later value from now on.
ClockTick ==
    /\ clock < MaxClock
    /\ clock' = clock + 1
    /\ lastCall' = Call("tick", "none", "none")
    /\ UNCHANGED <<converterVars, sessionVars, storeVars>>

\* This tab's App from its start, the other tabs of tabs and the clock.
TabsNext(tabs) ==
    \/ Mount
    \/ AppIsUp /\ HandleLogin
    \/ AppIsUp /\ HandleRegister
    \/ AppIsUp /\ HandleLogout
    \/ AppIsUp /\ RedirectTimerFires
    \/ OtherTabLogin(tabs)
    \/ OtherTabLogout(tabs)
    \/ OtherTabRoleChange(tabs)
    \/ OtherTabDeleteUser(tabs)
    \/ ClockTick

\* This tab and one other tab.
SessionNext == TabsNext({"B"})

SessionSpec == AppInit /\ [][SessionNext]_vars

\* This tab and all the other tabs.
UserNext == TabsNext(OtherTabs)

UserSpec == AppInit /\ [][UserNext]_vars

----------------------------------------------------------------------------
(* The article, bookmark and read-later stores.  Every manager call reads  *)
(* its arrays from localStorage, works on them and saves them: one step.   *)

MaxItems == 2

Item(a, u) == [articleId |-> a, userId |-> u]

\* array.filter(item => item.articleId !== id)
RECURSIVE WithoutArticle(_, _)
WithoutArticle(items, id) ==
    IF items = <<>> THEN <<>>
    ELSE (IF Head(items).articleId # id THEN <<Head(items)>> ELSE <<>>)
         \o WithoutArticle(Tail(items), id)

\* array.filter(item => !(item.articleId === a && item.userId === u))
RECURSIVE WithoutItem(_, _)
WithoutItem(items, it) ==
    IF items = <<>> THEN <<>>
    ELSE (IF Head(items) # it THEN <<Head(items)>> ELSE <<>>)
         \o WithoutItem(Tail(items), it)

\* articles.filter(article => article.id !== id)
RECURSIVE WithoutId(_, _)
WithoutId(ids, id) ==
    IF ids = <<>> THEN <<>>
    ELSE (IF Head(ids) # id THEN <<Head(ids)>> ELSE <<>>)
         \o WithoutId(Tail(ids), id)

\* Math.max(0, ...articles.map(a => a.id))
RECURSIVE MaxId(_)
MaxId(ids) == IF ids = <<>> THEN 0 ELSE Max(Head(ids), MaxId(Tail(ids)))

HasItem(items, it) == \E k \in 1..Len(items) : items[k] = it

\* ArticleManager.add(article): the new id is the largest id plus one.
ArticleAdd ==
    /\ MaxId(articles) + 1 \in ArticleIds
    /\ articles' = Append(articles, MaxId(articles) + 1)
    /\ lastCall' = Call("ArticleManager.add", "none", MaxId(articles) + 1)
    /\ UNCHANGED <<bookmarks, readLater>>
    /\ UNCHANGED <<likes, views, clock>>
    /\ UNCHANGED <<converterVars, sessionVars>>

\* ArticleManager.delete without the clean-up of the read-later store.
ArticleDelete_KeepsReadLater ==
    /\ \E id \in ArticleIds :
          LET filtered == WithoutId(articles, id)
          IN  IF Len(filtered) < Len(articles)
              THEN /\ articles' = filtered
                   /\ bookmarks' = WithoutArticle(bookmarks, id)
                   /\ readLater' = readLater
                   /\ lastCall' = Call("ArticleManager.delete", id, TRUE)
              ELSE /\ lastCall' = Call("ArticleManager.delete", id, FALSE)
                   /\ UNCHANGED <<articles, bookmarks, readLater>>
    /\ UNCHANGED <<likes, views, clock>>
    /\ UNCHANGED <<converterVars, sessionVars>>

\* ArticleManager.delete(id).
ArticleDelete ==
    /\ \E id \in ArticleIds :
          LET filtered == WithoutId(articles, id)
          IN  IF Len(filtered) < Len(articles)
              THEN /\ articles' = filtered
                   /\ bookmarks' = WithoutArticle(bookmarks, id)
                   /\ readLater' = WithoutArticle(readLater, id)
                   /\ lastCall' = Call("ArticleManager.delete", id, TRUE)
              ELSE /\ lastCall' = Call("ArticleManager.delete", id, FALSE)
                   /\ UNCHANGED <<articles, bookmarks, readLater>>
    /\ UNCHANGED <<likes, views, clock>>
    /\ UNCHANGED <<converterVars, sessionVars>>

\* BookmarkManager.add without the exists test.
BookmarkAdd_NoExistsTest ==
    /\ \E a \in ArticleIds, u \in Usernames :
          /\ Len(bookmarks) < MaxItems
          /\ bookmarks' = Append(bookmarks, Item(a, u))
          /\ lastCall' = Call("BookmarkManager.add", Item(a, u), "none")
    /\ UNCHANGED <<articles, readLater>>
    /\ UNCHANGED <<likes, views, clock>>
    /\ UNCHANGED <<converterVars, sessionVars>>

\* BookmarkManager.add(articleId, userId).
BookmarkAdd ==
    /\ \E a \in ArticleIds, u \in Usernames :
          /\ IF ~HasItem(bookmarks, Item(a, u))
             THEN /\ Len(bookmarks) < MaxItems
                  /\ bookmarks' = Append(bookmarks, Item(a, u))
             ELSE UNCHANGED bookmarks
          /\ lastCall' = Call("BookmarkManager.add", Item(a, u), "none")
    /\ UNCHANGED <<articles, readLater>>
    /\ UNCHANGED <<likes, views, clock>>
    /\ UNCHANGED <<converterVars, sessionVars>>

\* BookmarkManager.remove(articleId, userId).
BookmarkRemove ==
    /\ \E a \in ArticleIds, u \in Usernames :
          /\ bookmarks' = WithoutItem(bookmarks, Item(a, u))
          /\ lastCall' = Call("BookmarkManager.remove", Item(a, u), "none")
    /\ UNCHANGED <<articles, readLater>>
    /\ UNCHANGED <<likes, views, clock>>
    /\ UNCHANGED <<converterVars, sessionVars>>

\* ReadLaterManager.add(articleId, userId).
ReadLaterAdd ==
    /\ \E a \in ArticleIds, u \in Usernames :
          /\ IF ~HasItem(readLater, Item(a, u))
             THEN /\ Len(readLater) < MaxItems
                  /\ readLater' = Append(readLater, Item(a, u))
             ELSE UNCHANGED readLater
          /\ lastCall' = Call("ReadLaterManager.add", Item(a, u), "none")
    /\ UNCHANGED <<articles, bookmarks>>
    /\ UNCHANGED <<likes, views, clock>>
    /\ UNCHANGED <<converterVars, sessionVars>>

\* ReadLaterManager.remove(articleId, userId).
ReadLaterRemove ==
    /\ \E a \in ArticleIds, u \in Usernames :
          /\ readLater' = WithoutItem(readLater, Item(a, u))
          /\ lastCall' = Call("ReadLaterManager.remove", Item(a, u), "none")
    /\ UNCHANGED <<articles, bookmarks>>
    /\ UNCHANGED <<likes, views, clock>>
    /\ UNCHANGED <<converterVars, sessionVars>>

StoreInit ==
    /\ StoresEmpty
    /\ AppAtRest
    /\ ConverterAtRest
    /\ clock = 0

StoreNext ==
    \/ ArticleAdd
    \/ ArticleDelete
    \/ BookmarkAdd
    \/ BookmarkRemove
    \/ ReadLaterAdd
    \/ ReadLaterRemove

StoreSpec == StoreInit /\ [][StoreNext]_vars

----------------------------------------------------------------------------
(* The like and view stores.  A like is stamped with Date.now() as its id, *)
(* a view with the time it was recorded at.                                *)

Like(id, a, u) == [id |-> id, articleId |-> a, userId |-> u]

View(a, u, at) == [articleId |-> a, userId |-> u, viewedAt |-> at]

\* new Date().toISOString(), and the time new Date(viewedAt) reads back.
toISOString(n) == toString(n)

getTime(s) == parseInt(s)

\* likes.find(like => like.articleId === articleId && like.userId === userId):
\* the index of the first such like, 0 when there is none.
existingLike(ls, a, u) ==
    FirstOf({k \in 1..Len(ls) : ls[k].articleId = a /\ ls[k].userId = u})

\* likes.filter(like => like.id !== id)
RECURSIVE WithoutLikeId(_, _)
WithoutLikeId(ls, id) ==
    IF ls = <<>> THEN <<>>
    ELSE (IF Head(ls).id # id THEN <<Head(ls)>> ELSE <<>>)
         \o WithoutLikeId(Tail(ls), id)

\* LikesManager.isLiked(articleId, userId), for the likes ls.
isLiked(ls, a, u) ==
    \E k \in 1..Len(ls) : ls[k].articleId = a /\ ls[k].userId = u

\* LikesManager.getCount(articleId), for the likes ls.
LikesGetCount(ls, a) == Cardinality({k \in 1..Len(ls) : ls[k].articleId = a})

\* ViewsManager.getCount(articleId)
ViewsGetCount(a) == Cardinality({k \in 1..Len(views) : views[k].articleId = a})

\* ArticleManager.getById(articleId) finds an article: ArticleDetail has
\* loaded it.
ArticleLoaded(a) == \E k \in 1..Len(articles) : articles[k] = a

\* LikesManager.toggle(articleId, userId), called by ArticleDetail for the
\* article it has loaded.
LikesToggle ==
    /\ \E a \in ArticleIds, u \in Usernames :
          LET k == existingLike(likes, a, u)
          IN  /\ ArticleLoaded(a)
              /\ IF k # 0
                 THEN /\ likes' = WithoutLikeId(likes, likes[k].id)
                      /\ lastCall' =
                            Call("LikesManager.toggle", Item(a, u), FALSE)
                 ELSE /\ Len(likes) < MaxItems
                      /\ likes' = Append(likes, Like(clock, a, u))
                      /\ lastCall' =
                            Call("LikesManager.toggle", Item(a, u), TRUE)
    /\ UNCHANGED <<articles, bookmarks, readLater, views, clock>>
    /\ UNCHANGED <<converterVars, sessionVars>>

\* The recentView test with a window one millisecond shorter.
recentView_ShortWindow(vs, a, u, now) ==
    \E k \in 1..Len(vs) :
        /\ vs[k].articleId = a
        /\ vs[k].userId = u
        /\ getTime(vs[k].viewedAt) > now - DAY + 1

\* ViewsManager.addView: the recentView test for the pair at time now.
recentView(vs, a, u, now) ==
    \E k \in 1..Len(vs) :
        /\ vs[k].articleId = a
        /\ vs[k].userId = u
        /\ getTime(vs[k].viewedAt) > now - DAY

\* ViewsManager.addView(articleId, userId), called by ArticleDetail for
\* the article it has loaded.
ViewsAddView ==
    /\ \E a \in ArticleIds, u \in Usernames :
          /\ ArticleLoaded(a)
          /\ IF ~recentView(views, a, u, clock)
             THEN /\ Len(views) < MaxItems
                  /\ views' = Append(views, View(a, u, toISOString(clock)))
             ELSE UNCHANGED views
          /\ lastCall' = Call("ViewsManager.addView", Item(a, u), "none")
    /\ UNCHANGED <<articles, bookmarks, readLater, likes, clock>>
    /\ UNCHANGED <<converterVars, sessionVars>>

\* The article, like and view managers, called in any order.
EngageNext ==
    \/ ArticleAdd
    \/ ArticleDelete
    \/ LikesToggle
    \/ ViewsAddView
    \/ ClockTick

EngageSpec == StoreInit /\ [][EngageNext]_vars

\* The article and view managers.
ViewNext ==
    \/ ArticleAdd
    \/ ArticleDelete
    \/ ViewsAddView
    \/ ClockTick

ViewSpec == StoreInit /\ [][ViewNext]_vars

----------------------------------------------------------------------------
(* Vocabulary of the properties.                                           *)

\* The number of entries of the list xs that equal x.
Count(xs, x) == Cardinality({k \in 1..Len(xs) : xs[k] = x})

\* The number of places of the string s at which pat occurs.
Occurrences(s, pat) == Cardinality({q \in 1..Len(s) : MatchesAt(s, q, pat)})

Contains(s, pat) == \E q \in 1..Len(s) : MatchesAt(s, q, pat)

IsBlank(l) == \A k \in 1..Len(l) : l[k] \in WhiteSpace

HasHeadingOrListPrefix(l) ==
    \/ startsWith(l, <<"#", " ">>)
    \/ startsWith(l, <<"#", "#", " ">>)
    \/ startsWith(l, <<"#", "#", "#", " ">>)
    \/ startsWith(l, <<"-", " ">>)

\* l contains a span **t** (t without line break).
HasBoldSpan(l) ==
    \E p, q \in 1..Len(l) :
        /\ p + 2 <= q
        /\ MatchesAt(l, p, STARS)
        /\ MatchesAt(l, q, STARS)
        /\ \A k \in (p + 2)..(q - 1) : l[k] \notin LineTerminators

HasCodeFence(s) == \E p \in 1..Len(s) : MatchesAt(s, p, CODE_START)

HasInlineCode(s) == \E p \in 1..Len(s) : MatchesAt(s, p, ICODE_START)

\* The text has none of the constructs of the markup.
NoMarkup(s) ==
    /\ ~HasCodeFence(s)
    /\ ~HasInlineCode(s)
    /\ \A k \in 1..Len(split(s, <<NL>>)) :
          LET l == split(s, <<NL>>)[k]
          IN  /\ ~isDataRow(trim(l))
              /\ ~HasHeadingOrListPrefix(l)
              /\ ~HasHeadingOrListPrefix(trim(l))
              /\ ~HasBoldSpan(l)

\* What the basic-markdown stage is described to do with a plain line.
PlainLineOutput(l) == IF IsBlank(l) THEN SPACER ELSE P_OPEN \o l \o P_CLOSE

RECURSIVE PlainLinesOutput(_)
PlainLinesOutput(ls) ==
    IF ls = <<>> THEN <<>>
    ELSE <<PlainLineOutput(Head(ls))>> \o PlainLinesOutput(Tail(ls))

----------------------------------------------------------------------------
(* C1: parseBacklogWiki applied to the empty string returns the empty      *)
(* string.  The code returns the spacer element: the basic-markdown stage  *)
(* turns the single empty line of "" into a spacer.                        *)
C1_EmptyInputGivesEmptyOutput ==
    (pc = "done" /\ text = <<>>) => html = <<>>

(* C2: a line that is not a heading, list item or blank line and contains  *)
(* **t** spans is emitted as one paragraph whose content is the line with  *)
(* every **t** replaced by <strong>t</strong>, wherever the span sits.     *)
(* The code leaves the line without paragraph when the span is at the      *)
(* start of the line, because the substituted line then starts with '<'.   *)
C2_BoldLineIsParagraph ==
    [][pc = "basic" =>
        \A k \in 1..Len(split(html, <<NL>>)) :
            LET l == split(html, <<NL>>)[k]
            IN  ( /\ ~HasHeadingOrListPrefix(l)
                  /\ ~IsBlank(l)
                  /\ ~startsWith(l, <<"<">>)
                  /\ HasBoldSpan(l) )
                => split(html', <<NL>>)[k]
                     = P_OPEN \o replaceBold(l) \o P_CLOSE]_vars

(* C3: for every input without recognized markup the output has one line  *)
(* per input line: a non-blank line becomes a paragraph wrapping exactly   *)
(* the line's text, character for character, and a blank line becomes the  *)
(* spacer.  Lines that already look like HTML (a leading '<') are left out *)
(* of the statement.  The code wraps the trimmed line: the table stage     *)
(* trims every line it passes on.                                          *)
NoHtmlLine(s) ==
    \A k \in 1..Len(split(s, <<NL>>)) :
        ~startsWith(trim(split(s, <<NL>>)[k]), <<"<">>)

C3_PlainTextIsWrappedLineByLine ==
    (pc = "done" /\ NoMarkup(text) /\ NoHtmlLine(text))
        => html = join(PlainLinesOutput(split(text, <<NL>>)), <<NL>>)

(* C4: every line of HTML produced by the table, code-block or inline-     *)
(* code stage passes through the basic-markdown stage unchanged; in        *)
(* particular the lines of a multi-line fenced code block and of a table   *)
(* reach the final output exactly as the earlier stage emitted them.       *)
(* Lines holding '**' are left out of the statement (bold applies to every *)
(* line).  The code classifies the second and later lines of a code block  *)
(* like lines of the input and wraps them in paragraphs.                   *)
EmittedLineStarts ==
    { TABLE_OPEN, THEAD_OPEN, TR_OPEN, TH_OPEN, TR_CLOSE, THEAD_CLOSE,
      TBODY_OPEN, TD_OPEN, TBODY_CLOSE, TABLE_CLOSE, PRE_OPEN, ICODE_OPEN }

StartsWithEmitted(l) == \E t \in EmittedLineStarts : startsWith(l, t)

\* Line k of ls begins inside a code block opened on an earlier line.
InCodeBlock(ls, k) ==
    LET before == join(SubSeq(ls, 1, k - 1), <<NL>>)
    IN  Occurrences(before, PRE_OPEN) > Occurrences(before, PRE_CLOSE)

C4_EarlierHtmlPassesUnchanged ==
    [][pc = "basic" =>
        \A k \in 1..Len(split(html, <<NL>>)) :
            LET ls == split(html, <<NL>>)
            IN  ( /\ StartsWithEmitted(ls[k]) \/ InCodeBlock(ls, k)
                  /\ ~Contains(ls[k], STARS) )
                => split(html', <<NL>>)[k] = ls[k]]_vars

(* C5: for every input in which every {code} fence is terminated, each     *)
(* opening tag the converter emits has exactly one matching closing tag,   *)
(* properly nested.  The code emits mis-nested tags for a table with two   *)
(* header rows and for a code block of several lines.                      *)
TagNames ==
    { <<"t","a","b","l","e">>, <<"t","h","e","a","d">>,
      <<"t","b","o","d","y">>, <<"t","r">>, <<"t","h">>, <<"t","d">>,
      <<"p","r","e">>, <<"c","o","d","e">>, <<"p">>, <<"h","1">>,
      <<"h","2">>, <<"h","3">>, <<"s","t","r","o","n","g">>,
      <<"d","i","v">> }

OpenTagAt(s, p, n) ==
    /\ MatchesAt(s, p, <<"<">> \o n)
    /\ p + Len(n) + 1 <= Len(s)
    /\ s[p + Len(n) + 1] \in {" ", ">"}

CloseTagAt(s, p, n) == MatchesAt(s, p, <<"<", "/">> \o n \o <<">">>)

IsTagAt(s, p) ==
    \E n \in TagNames : OpenTagAt(s, p, n) \/ CloseTagAt(s, p, n)

\* The tags of s from p on are matched and nested, given the open ones.
RECURSIVE NestedFrom(_, _, _)
NestedFrom(s, p, stack) ==
    LET q == FirstOf({r \in p..Len(s) : IsTagAt(s, r)})
    IN  IF q = 0 THEN stack = <<>>
        ELSE IF \E n \in TagNames : OpenTagAt(s, q, n)
        THEN LET n == CHOOSE m \in TagNames : OpenTagAt(s, q, m)
             IN  NestedFrom(s, q + 1, Append(stack, n))
        ELSE /\ stack # <<>>
             /\ CloseTagAt(s, q, stack[Len(stack)])
             /\ NestedFrom(s, q + 1, SubSeq(stack, 1, Len(stack) - 1))

WellNested(s) == NestedFrom(s, 1, <<>>)

\* Every opening delimiter of a fence has a {/code} after it.
AllFencesTerminated(s) ==
    \A p \in 1..Len(s) :
        codeOpenAt(s, p).ok => IndexFrom(s, CODE_END, codeOpenAt(s, p).body) > 0

C5_OutputTagsAreNested ==
    (pc = "done" /\ AllFencesTerminated(text)) => WellNested(html)

----------------------------------------------------------------------------
(* The rows of the table stage.                                            *)

\* Line j of the scan is a table row / a header row.
IsRow(j) == isDataRow(trim(lines[j]))

IsHeader(j) == isHeaderRow(trim(lines[j]))

\* Line j is the first row of a table block.
StartsBlock(j) == IsRow(j) /\ (j = 1 \/ ~IsRow(j - 1))

\* The lines the loop has processed.
Scanned == 1..(i - 1)

HeadersScanned == {j \in Scanned : IsHeader(j)}

(* C6: in the table stage a line that matches neither row pattern is       *)
(* copied to the output unchanged, same characters including leading and   *)
(* trailing white space, preceded by </tbody></table> exactly when a table *)
(* was open.  The code pushes the trimmed line.                            *)
C6_OtherLineCopiedUnchanged ==
    [][(pc = "table" /\ i <= Len(lines) /\ ~IsRow(i))
        => result' = result
                     \o (IF inTable THEN <<TBODY_CLOSE, TABLE_CLOSE>>
                                    ELSE <<>>)
                     \o <<lines[i]>>]_vars

(* C7, as stated: each header row opens its own <thead> and its own        *)
(* <tbody>, so that k header rows yield k <thead> and k <tbody> opening    *)
(* tags.  (Tables that begin with a data row, which opens a <tbody> of its *)
(* own, are left out.)                                                     *)
C7_EachHeaderOpensTheadAndTbody ==
    (\A j \in Scanned : StartsBlock(j) => IsHeader(j))
        => /\ Count(result, THEAD_OPEN) = Cardinality(HeadersScanned)
           /\ Count(result, TBODY_OPEN) = Cardinality(HeadersScanned)

(* C7, amended: each header row emits its own </thead> and opens its own   *)
(* <tbody>, but <thead> is opened only together with <table>, by a header  *)
(* row that starts a table block: k header rows yield k </thead> and k     *)
(* <tbody> (plus one <tbody> per block that a data row starts) and one     *)
(* <thead> per block that a header row starts.                             *)
C7_HeaderClosesTheadOpensTbody ==
    /\ Count(result, THEAD_CLOSE) = Cardinality(HeadersScanned)
    /\ Count(result, TBODY_OPEN)
         = Cardinality(HeadersScanned)
           + Cardinality({j \in Scanned : StartsBlock(j) /\ ~IsHeader(j)})
    /\ Count(result, THEAD_OPEN)
         = Cardinality({j \in Scanned : StartsBlock(j) /\ IsHeader(j)})

\* Two header rows of one block have been processed.
C7_Witness ==
    /\ pc = "table"
    /\ i = 3
    /\ IsHeader(1)
    /\ IsHeader(2)
    /\ Count(result, THEAD_CLOSE) = 2
    /\ Count(result, THEAD_OPEN) = 1

(* C8: the table stage emits exactly one </tbody></table> for every        *)
(* <table> it opens, also when the input ends inside a table; during the   *)
(* scan the number of opened and not yet closed tables is 0 or 1 and       *)
(* equals the inTable flag.                                                *)
OpenTables == Count(result, TABLE_OPEN) - Count(result, TABLE_CLOSE)

C8_TablesAreClosed ==
    /\ pc = "table" => OpenTables = (IF inTable THEN 1 ELSE 0)
    /\ pc # "table" => OpenTables = 0
    /\ Count(result, TBODY_CLOSE) = Count(result, TABLE_CLOSE)
    /\ \A k \in 1..Len(result) :
          result[k] = TABLE_CLOSE => k > 1 /\ result[k - 1] = TBODY_CLOSE

\* The input ended inside its second table, and both tables are closed.
C8_Witness ==
    /\ pc = "code"
    /\ inTable
    /\ Count(result, TABLE_OPEN) = 2
    /\ Count(result, TABLE_CLOSE) = 2

(* C9: for an input made of one header row with n cells followed by m     *)
(* data rows the output is exactly one table: one <thead> with one row of  *)
(* n <th> cells and one <tbody> with m rows of <td> cells, the cell texts  *)
(* trimmed and in input order, empty cells giving empty elements; and a    *)
(* trimmed line that starts and ends with || is always handled as a header *)
(* row, never as a data row.                                               *)

\* A data row as written: it does not both start and end with an empty cell
\* (which would make the line start and end with ||).
WrittenAsDataRow(r) ==
    /\ r.kind = DATA
    /\ ~(r.cells[1] = <<>> /\ r.cells[Len(r.cells)] = <<>>)

\* The token list is one header row followed by data rows.
HeaderThenDataRows(t) ==
    LET rs == RowsOf(t)
    IN  /\ rs # <<>>
        /\ rs[1].kind = HEADER
        /\ \A k \in 2..Len(rs) : WrittenAsDataRow(rs[k])

RECURSIVE CellElements(_, _, _)
CellElements(cells, open, close) ==
    IF cells = <<>> THEN <<>>
    ELSE <<open \o trim(Head(cells)) \o close>>
         \o CellElements(Tail(cells), open, close)

RECURSIVE BodyRows(_)
BodyRows(rs) ==
    IF rs = <<>> THEN <<>>
    ELSE <<TR_OPEN>> \o CellElements(Head(rs).cells, TD_OPEN, TD_CLOSE)
         \o <<TR_CLOSE>> \o BodyRows(Tail(rs))

\* The lines of the table described by the claim.
ExpectedTable(rs) ==
    <<TABLE_OPEN, THEAD_OPEN, TR_OPEN>>
    \o CellElements(rs[1].cells, TH_OPEN, TH_CLOSE)
    \o <<TR_CLOSE, THEAD_CLOSE, TBODY_OPEN>>
    \o BodyRows(Tail(rs))
    \o <<TBODY_CLOSE, TABLE_CLOSE>>

\* The rows of result whose cells are of the given kind.
RowsOfCells(open) ==
    {k \in 1..(Len(result) - 1) :
        result[k] = TR_OPEN /\ startsWith(result[k + 1], open)}

C9_HeaderAndDataRowsGiveOneTable ==
    /\ (pc # "table" /\ HeaderThenDataRows(toks))
          => result = ExpectedTable(RowsOf(toks))
    /\ (pc = "done" /\ HeaderThenDataRows(toks))
          => html = join(ExpectedTable(RowsOf(toks)), <<NL>>)
    /\ Cardinality(RowsOfCells(TH_OPEN)) = Cardinality(HeadersScanned)
    /\ Cardinality(RowsOfCells(TD_OPEN))
         = Cardinality({j \in Scanned : IsRow(j) /\ ~IsHeader(j)})

\* A header row and two data rows have been converted.
C9_Witness ==
    /\ pc = "done"
    /\ HeaderThenDataRows(toks)
    /\ Len(RowsOf(toks)) = 3
    /\ Cardinality(RowsOfCells(TD_OPEN)) = 2

(* C10: every terminated fence {code}B{/code} or {code:L}B{/code} is       *)
(* replaced by exactly one <pre><code class="language-X"> block, X being L *)
(* when given and 'text' otherwise, whose content is B trimmed and then    *)
(* HTML-escaped, so that no '<' of B is left unescaped; an opening         *)
(* delimiter pairs with the nearest {/code} after it.  Stated on texts     *)
(* written with whole delimiters, '<', blanks and line breaks, which the   *)
(* table stage has passed on as they are.                                  *)

\* The text is written with fence pieces on plain lines only.
WrittenWithFences(t) ==
    \A k \in 1..Len(t) : t[k] \in FenceFrags \cup {PLAIN}

\* The pieces of the text in order, a line break for every new line.
Pieces(t) == [k \in 1..(Len(t) - 1) |-> IF t[k + 1] = PLAIN THEN <<NL>>
                                                           ELSE t[k + 1]]

BlankPieces == {<<" ">>, <<NL>>}

RECURSIVE TrimPieces(_)
TrimPieces(ps) ==
    IF ps # <<>> /\ Head(ps) \in BlankPieces THEN TrimPieces(Tail(ps))
    ELSE IF ps # <<>> /\ ps[Len(ps)] \in BlankPieces
    THEN TrimPieces(SubSeq(ps, 1, Len(ps) - 1))
    ELSE ps

RECURSIVE EscapedPieces(_)
EscapedPieces(ps) ==
    IF ps = <<>> THEN <<>>
    ELSE (IF Head(ps) = <<"<">> THEN LT_ENT ELSE Head(ps))
         \o EscapedPieces(Tail(ps))

FenceLanguage(p) == IF p = FENCE_OPEN_JS THEN <<"j", "s">> ELSE DEFAULT_LANG

\* The text in which every opening delimiter that has a {/code} after it,
\* and is not inside the body of an earlier fence, is replaced with its body.
RECURSIVE ExpectedFences(_)
ExpectedFences(ps) ==
    IF ps = <<>> THEN <<>>
    ELSE LET closers == {c \in 2..Len(ps) : ps[c] = CODE_END}
         IN  IF Head(ps) \in {FENCE_OPEN, FENCE_OPEN_JS} /\ closers # {}
             THEN LET c == CHOOSE x \in closers : \A y \in closers : x <= y
                  IN  PRE_OPEN \o FenceLanguage(Head(ps)) \o PRE_MID
                      \o EscapedPieces(TrimPieces(SubSeq(ps, 2, c - 1)))
                      \o PRE_CLOSE
                      \o ExpectedFences(SubSeq(ps, c + 1, Len(ps)))
             ELSE Head(ps) \o ExpectedFences(Tail(ps))

C10_TerminatedFenceBecomesCodeBlock ==
    ( /\ pc = "inline"
      /\ WrittenWithFences(toks)
      /\ join(result, <<NL>>) = text )
        => html = ExpectedFences(Pieces(toks))

\* A fence with a language whose body " <" was trimmed and escaped.
C10_Witness ==
    /\ pc = "inline"
    /\ WrittenWithFences(toks)
    /\ join(result, <<NL>>) = text
    /\ Contains(text, FENCE_OPEN_JS \o <<" ", "<">> \o CODE_END)
    /\ Contains(html, <<"j", "s">> \o PRE_MID \o LT_ENT \o PRE_CLOSE)

----------------------------------------------------------------------------
(* C11: an opening delimiter with no closing delimiter after it.           *)

\* The positions of s where an opening delimiter stands that no closing
\* delimiter follows.
UnterminatedOpenings(s) ==
    {p \in 1..Len(s) :
        /\ MatchesAt(s, p, FENCE_OPEN) \/ MatchesAt(s, p, FENCE_OPEN_JS)
        /\ IndexFrom(s, CODE_END, p) = 0}

\* The last n characters of s.
Suffix(s, n) == SubSeq(s, Len(s) - n + 1, Len(s))

\* C11: when an opening {code} or {code:lang} has no {/code} after it, the
\* code-block stage leaves the text from that delimiter onward exactly as
\* it was (so no pre/code element is written for it), and the converter
\* still finishes, with the delimiter as literal text in its output.
C11_UnterminatedFenceIsLiteral ==
    LET s == join(result, <<NL>>)
    IN  /\ pc = "inline" =>
              \A p \in UnterminatedOpenings(s) :
                  /\ Len(html) >= Len(s) - p + 1
                  /\ Suffix(html, Len(s) - p + 1) = SubSeq(s, p, Len(s))
        /\ pc = "done" =>
              ( UnterminatedOpenings(s) # {}
                  => Contains(html, FENCE_OPEN)
                     \/ Contains(html, FENCE_OPEN_JS) )

\* A terminated fence was replaced and the unterminated opening after it
\* was left in place.
C11_Witness ==
    /\ pc = "inline"
    /\ text = FENCE_OPEN \o <<"<">> \o CODE_END \o FENCE_OPEN_JS
    /\ html = PRE_OPEN \o DEFAULT_LANG \o PRE_MID \o LT_ENT \o PRE_CLOSE
              \o FENCE_OPEN_JS

----------------------------------------------------------------------------
(* C12: the converter and its stages are total.                            *)

\* s is a string: a finite sequence of characters.
IsText(s) == \A k \in 1..Len(s) : s[k] \in STRING

Stages == {"table", "code", "inline", "basic", "done"}

\* C12: for every input, malformed markup included, no stage fails and
\* each returns a string: the converter is only ever in one of its stages,
\* and the lines of the table stage and the text handed from stage to
\* stage are strings.
C12_EveryStageReturnsAString ==
    /\ pc \in Stages
    /\ IsText(html)
    /\ \A k \in 1..Len(result) : IsText(result[k])

\* The converter returned on an unterminated fence, a lone bold marker and
\* an unterminated inline-code opening, all left as literal text.
C12_Witness ==
    /\ pc = "done"
    /\ text = FENCE_OPEN \o STARS \o ICODE_START
    /\ html = P_OPEN \o text \o P_CLOSE

----------------------------------------------------------------------------
(* C13: inline code.                                                       *)

WrittenWithInline(t) ==
    \A k \in 1..Len(t) : t[k] \in InlineFrags \cup {PLAIN}

\* The pieces of an inline-code text with '&' written as its entity.
RECURSIVE AmpEscapedPieces(_)
AmpEscapedPieces(ps) ==
    IF ps = <<>> THEN <<>>
    ELSE (IF Head(ps) = <<"&">> THEN AMP_ENT
          ELSE IF Head(ps) = ICODE_START THEN AMP_ENT \o Tail(ICODE_START)
          ELSE Head(ps))
         \o AmpEscapedPieces(Tail(ps))

\* The text in which every &code( that is followed by at least one piece
\* without ')' and then by ); is replaced with the inline element around
\* those pieces, escaped and not trimmed; everything else is copied.
RECURSIVE ExpectedInline(_)
ExpectedInline(ps) ==
    IF ps = <<>> THEN <<>>
    ELSE LET stops == {c \in 2..Len(ps) : ps[c] \in {<<")">>, ICODE_END}}
             c == IF stops = {} THEN 0
                  ELSE CHOOSE x \in stops : \A y \in stops : x <= y
         IN  IF Head(ps) = ICODE_START /\ c > 2 /\ ps[c] = ICODE_END
             THEN ICODE_OPEN \o AmpEscapedPieces(SubSeq(ps, 2, c - 1))
                  \o ICODE_CLOSE
                  \o ExpectedInline(SubSeq(ps, c + 1, Len(ps)))
             ELSE Head(ps) \o ExpectedInline(Tail(ps))

\* C13: every &code(T); whose T is non-empty and has no ')' is replaced by
\* one inline code element holding T escaped and not trimmed, and the text
\* outside such spans is left as it was by the inline-code stage.
C13_InlineCodeIsEscapedNotTrimmed ==
    ( /\ pc = "basic"
      /\ WrittenWithInline(toks)
      /\ join(result, <<NL>>) = text )
        => html = ExpectedInline(Pieces(toks))

\* The span &code( &); became an element holding the blank and the entity.
C13_Witness ==
    /\ pc = "basic"
    /\ text = ICODE_START \o <<" ", "&">> \o ICODE_END
    /\ html = ICODE_OPEN \o <<" ">> \o AMP_ENT \o ICODE_CLOSE

----------------------------------------------------------------------------
(* C14: headings and list items.                                           *)

\* The line l without its first n characters.
Drop(l, n) == SubSeq(l, n + 1, Len(l))

\* C14: a line of the markdown stage that begins with '# ', '## ', '### '
\* or '- ' is emitted as the h1, h2, h3 or bullet paragraph around the line
\* without exactly that prefix (2, 3, 4, 2 characters), bold spans
\* substituted, and as nothing else; a line that begins with four '#' is
\* not a heading but an ordinary paragraph.
C14_PrefixedLineIsHeadingOrBullet ==
    [][pc = "basic" =>
        LET ls == split(html, <<NL>>)
            outs == split(html', <<NL>>)
        IN  \A k \in 1..Len(ls) :
              LET l == ls[k]
                  out == outs[k]
              IN  /\ startsWith(l, <<"#", " ">>)
                     => out = H1_OPEN \o replaceBold(Drop(l, 2)) \o H1_CLOSE
                  /\ startsWith(l, <<"#", "#", " ">>)
                     => out = H2_OPEN \o replaceBold(Drop(l, 3)) \o H2_CLOSE
                  /\ startsWith(l, <<"#", "#", "#", " ">>)
                     => out = H3_OPEN \o replaceBold(Drop(l, 4)) \o H3_CLOSE
                  /\ startsWith(l, <<"-", " ">>)
                     => out = LIST_OPEN \o replaceBold(Drop(l, 2)) \o P_CLOSE
                  /\ startsWith(l, <<"#", "#", "#", "#">>)
                     => out = P_OPEN \o replaceBold(l) \o P_CLOSE]_vars

\* The line '## a**b**' became the h2 around 'a' and the strong element.
C14_Witness ==
    /\ pc = "done"
    /\ text = <<"#", "#", " ", "a">> \o BOLD_B
    /\ html = H2_OPEN \o <<"a">> \o STRONG_OPEN \o <<"b">> \o STRONG_CLOSE
              \o H2_CLOSE

----------------------------------------------------------------------------
(* C15: what escapeHtml replaces.                                          *)

QUOT_ENT == <<"&", "q", "u", "o", "t", ";">>

APOS_ENT == <<"&", "#", "3", "9", ";">>

\* The characters of the pieces ps, each with an entity for '&', '<', '>'
\* and, when quotes is TRUE, for the two quote characters as well.
RECURSIVE WithEntities(_, _)
WithEntities(ps, quotes) ==
    IF ps = <<>> THEN <<>>
    ELSE (IF Head(ps) = <<"&">> THEN AMP_ENT
          ELSE IF Head(ps) = <<"<">> THEN LT_ENT
          ELSE IF Head(ps) = <<">">> THEN GT_ENT
          ELSE IF quotes /\ Head(ps) = <<"\"">> THEN QUOT_ENT
          ELSE IF quotes /\ Head(ps) = <<"'">> THEN APOS_ENT
          ELSE Head(ps))
         \o WithEntities(Tail(ps), quotes)

\* The text between the delimiters of an escape text.
EscBody(t) == SubSeq(t, 3, Len(t) - 1)

\* What the stage that escapes the body of the escape text t has written
\* when the body is escaped with or without entities for quotes.
EscapedAs(t, quotes) ==
    /\ (pc = "basic" /\ t[2] = ICODE_START)
          => html = ICODE_OPEN \o WithEntities(EscBody(t), quotes)
                    \o ICODE_CLOSE
    /\ (pc = "inline" /\ t[2] = FENCE_OPEN)
          => html = PRE_OPEN \o DEFAULT_LANG \o PRE_MID
                    \o WithEntities(EscBody(t), quotes) \o PRE_CLOSE

----------------------------------------------------------------------------
(* C16: escaping is for code only.                                         *)

\* The characters of the pieces ps, one after the other.
RECURSIVE Flat(_)
Flat(ps) == IF ps = <<>> THEN <<>> ELSE Head(ps) \o Flat(Tail(ps))

\* The output for a prose text t: its one line as a heading, list item or
\* paragraph, or its one row as a table, with the text character for
\* character as written.
ProseOutput(t) ==
    LET rest == Tail(t)
        body == Flat(Tail(rest))
    IN  IF t[1] = HEADER
        THEN join(<<TABLE_OPEN, THEAD_OPEN, TR_OPEN>>
                  \o CellElements(rest, TH_OPEN, TH_CLOSE)
                  \o <<TR_CLOSE, THEAD_CLOSE, TBODY_OPEN, TBODY_CLOSE,
                       TABLE_CLOSE>>, <<NL>>)
        ELSE IF t[1] = DATA
        THEN join(<<TABLE_OPEN, TBODY_OPEN, TR_OPEN>>
                  \o CellElements(rest, TD_OPEN, TD_CLOSE)
                  \o <<TR_CLOSE, TBODY_CLOSE, TABLE_CLOSE>>, <<NL>>)
        ELSE IF rest[1] = <<"#", " ">>
        THEN H1_OPEN \o body \o H1_CLOSE
        ELSE IF rest[1] = <<"-", " ">>
        THEN LIST_OPEN \o body \o P_CLOSE
        ELSE IF rest[1] = <<"<">>
        THEN Flat(rest)
        ELSE P_OPEN \o Flat(rest) \o P_CLOSE

\* C16: only the bodies of fences and the text of inline code are escaped.
\* The text of a table cell, heading, list item or paragraph is in the
\* output as written, '<', '>' and '&' included, and an input without a
\* code construct has no entity in its output.
C16_OnlyCodeIsEscaped ==
    pc = "done" =>
        /\ toks \in ProseInputs => html = ProseOutput(toks)
        /\ (~HasCodeFence(text) /\ ~HasInlineCode(text))
              => /\ ~Contains(html, AMP_ENT)
                 /\ ~Contains(html, LT_ENT)
                 /\ ~Contains(html, GT_ENT)

\* The data row |<|&| came out with '<' and '&' in its cells.
C16_Witness ==
    /\ pc = "done"
    /\ toks = <<DATA, <<"<">>, <<"&">> >>
    /\ Contains(html, TD_OPEN \o <<"<">> \o TD_CLOSE)
    /\ Contains(html, TD_OPEN \o <<"&">> \o TD_CLOSE)

----------------------------------------------------------------------------
(* C17: the converter applied to its own output.                           *)

\* The steps of the converter compute parseTable and parseBacklogWiki of
\* its text.
StepsComputeParseBacklogWiki ==
    /\ pc \notin {"table", "done"} => join(result, <<NL>>) = parseTable(text)
    /\ pc = "done" => html = parseBacklogWiki(text)

\* C17: for an input without markup constructs the converter applied to
\* its own output returns that output: parse(parse(x)) = parse(x).
C17_PlainOutputIsAFixedPoint ==
    (pc = "done" /\ NoMarkup(text)) => parseBacklogWiki(html) = html

\* Two lines of prose and a blank line between them were converted, and
\* the output has the paragraphs and the spacer.
C17_Witness ==
    /\ pc = "done"
    /\ NoMarkup(text)
    /\ text = <<" ", "a", NL, NL, " ", "a">>
    /\ html = P_OPEN \o <<"a">> \o P_CLOSE \o <<NL>> \o SPACER \o <<NL>>
              \o P_OPEN \o <<"a">> \o P_CLOSE
    /\ parseBacklogWiki(html) = html

----------------------------------------------------------------------------
(* C18: the converter is a function of its text.                           *)

\* C18: two calls with the same text return the same output, whatever
\* calls were made before them and between them.
C18_SameTextSameOutput ==
    \A a, b \in 1..Len(calls) :
        calls[a].text = calls[b].text => calls[a].html = calls[b].html

\* A table row was converted, then prose, then the same table row again,
\* which opened its table again.
C18_Witness ==
    /\ Len(calls) = 3
    /\ calls[1].text = <<"|", " ", "a", "|">>
    /\ calls[2].text = <<"a">>
    /\ calls[3].text = calls[1].text
    /\ startsWith(calls[3].html, TABLE_OPEN)

----------------------------------------------------------------------------
(* C19: only administrators reach the admin pages.                         *)

\* The components that are the content of the four admin pages.
AdminComponents ==
    {"ArticleManagement", "Dashboard", "UserManagement", "ArticleEditor"}

\* The user who is logged in has role 'admin' in the user store.
LoggedInUserIsAdmin ==
    /\ authState.isLoggedIn
    /\ getById(users, authState.userId).role = "admin"

\* The step is a handleNavigate call for an admin page, or a
\* handleEditArticle call, made while the user is not an admin.
RequestByNonAdmin ==
    /\ ~isAdmin
    /\ \/ lastCall'.op = "navigate" /\ lastCall'.arg \in AdminPages
       \/ lastCall'.op = "edit"

\* C19: whatever the users do (log in, register, log out, navigate, view,
\* edit, go back, with the redirect timers firing at any time), the content
\* of the management, dashboard, editor and user-management pages is
\* rendered only while the logged-in user has role 'admin', and a request
\* of a non-admin for such a page changes none of currentPage,
\* previousPage, selectedArticleId and editorMode.
C19_OnlyAdminsReachAdminPages ==
    /\ [](renderMainContent \in AdminComponents => LoggedInUserIsAdmin)
    /\ [][RequestByNonAdmin =>
             UNCHANGED <<currentPage, previousPage, selectedArticleId,
                         editorMode>>]_vars

\* The user u1 is logged in and on the dashboard page, put there by the
\* timer of the admin's earlier login; the dashboard is not rendered, and
\* u1's request for the management page was denied.
C19_Witness ==
    /\ authState = LoggedInAs(toString(1), "user")
    /\ getById(users, toString(1)).username = "u1"
    /\ currentPage = "dashboard"
    /\ renderMainContent = "admin-required"
    /\ lastCall = Call("navigate", "management", "denied")

----------------------------------------------------------------------------
(* C20: deleting an article.                                               *)

\* Some item of the list refers to the article id.
RefersTo(items, id) == \E k \in 1..Len(items) : items[k].articleId = id

IsStored(id) == \E k \in 1..Len(articles) : articles[k] = id

\* The last call was ArticleManager.delete and it returned ret.
DeleteReturned(ret) ==
    lastCall.op = "ArticleManager.delete" /\ lastCall.ret = ret

\* C20: when ArticleManager.delete(id) has returned true the article is
\* gone and no bookmark and no read-later item of any user refers to id;
\* a delete for an id that no article has returns false and leaves the
\* three stores as they were.
C20_DeleteRemovesArticleAndItsItems ==
    /\ [](DeleteReturned(TRUE) =>
             /\ ~IsStored(lastCall.arg)
             /\ ~RefersTo(bookmarks, lastCall.arg)
             /\ ~RefersTo(readLater, lastCall.arg))
    /\ [][(lastCall'.op = "ArticleManager.delete" /\ ~IsStored(lastCall'.arg))
             => /\ lastCall'.ret = FALSE
                /\ UNCHANGED <<articles, bookmarks, readLater>>]_vars

\* Article 1 was deleted, with its bookmark and its read-later item; the
\* items of article 2 are still there.
C20_Witness ==
    /\ DeleteReturned(TRUE)
    /\ lastCall.arg = 1
    /\ articles = <<2>>
    /\ bookmarks = <<Item(2, "u1")>>
    /\ readLater = <<Item(2, "admin")>>

----------------------------------------------------------------------------
(* C28: the bookmark and read-later stores hold one item per pair.          *)

\* BookmarkManager.getCount(userId), ReadLaterManager.getCount(userId):
\* the length of the user's items.
getCount(items, u) == Cardinality({k \in 1..Len(items) : items[k].userId = u})

\* How many items the list holds for the pair.
PairCount(items, it) == Cardinality({k \in 1..Len(items) : items[k] = it})

\* The articles the user has an item for.
SavedArticles(items, u) == {a \in ArticleIds : HasItem(items, Item(a, u))}

\* At most one item per pair, and getCount counts the user's articles.
OneItemPerPair(items) ==
    /\ \A a \in ArticleIds, u \in Usernames : PairCount(items, Item(a, u)) <= 1
    /\ \A u \in Usernames : getCount(items, u) = Cardinality(SavedArticles(items, u))

\* The step from items to after of a call op of a manager: an add for a
\* pair that has an item changes nothing, and no call changes the items of
\* another pair or their order.
PairStep(manager, items, after) ==
    /\ (lastCall'.op = manager \o ".add" /\ HasItem(items, lastCall'.arg))
          => after = items
    /\ lastCall'.op \in {manager \o ".add", manager \o ".remove"}
          => WithoutItem(after, lastCall'.arg) = WithoutItem(items, lastCall'.arg)

\* C28: after any sequence of add, remove and article delete calls the
\* bookmark store and the read-later store hold at most one item per
\* (articleId, userId) pair and getCount(u) is the number of articles u has
\* saved; after remove the pair has no item; add for a pair that has an
\* item leaves the store as it was; add and remove leave the items of
\* every other pair as they were.
C28_OneItemPerPair ==
    /\ [](/\ OneItemPerPair(bookmarks)
          /\ OneItemPerPair(readLater)
          /\ lastCall.op = "BookmarkManager.remove"
                => ~HasItem(bookmarks, lastCall.arg)
          /\ lastCall.op = "ReadLaterManager.remove"
                => ~HasItem(readLater, lastCall.arg))
    /\ [][/\ PairStep("BookmarkManager", bookmarks, bookmarks')
          /\ PairStep("ReadLaterManager", readLater, readLater')]_vars

\* BookmarkManager.add was called for a pair that had an item already, with
\* another article of the same user saved after it: the store is as it was
\* and the user's count is 2.
C28_Witness ==
    /\ lastCall = Call("BookmarkManager.add", Item(1, "u1"), "none")
    /\ bookmarks = <<Item(1, "u1"), Item(2, "u1")>>
    /\ getCount(bookmarks, "u1") = 2
    /\ readLater = <<Item(1, "u1")>>

----------------------------------------------------------------------------
(* C21: repeat views within 24 hours.                                       *)

\* Two records of the list are of the same article and user.
SamePair(vs, j, k) ==
    vs[j].articleId = vs[k].articleId /\ vs[j].userId = vs[k].userId

\* The time between two records of the list.
Apart(vs, j, k) ==
    IF getTime(vs[j].viewedAt) >= getTime(vs[k].viewedAt)
    THEN getTime(vs[j].viewedAt) - getTime(vs[k].viewedAt)
    ELSE getTime(vs[k].viewedAt) - getTime(vs[j].viewedAt)

\* The pair has a record that is newer than 24 hours now.
HasRecordNewerThanDay(it) ==
    \E k \in 1..Len(views) :
        /\ Item(views[k].articleId, views[k].userId) = it
        /\ clock - getTime(views[k].viewedAt) < DAY

\* C21: after any sequence of addView calls, with time passing between
\* them, any two stored records of the same article and user are at least
\* 24 hours apart, and an addView for a pair that has a record newer than
\* 24 hours leaves the view store as it was.
C21_RepeatViewsAreNotRecorded ==
    /\ [](\A j, k \in 1..Len(views) :
             (j < k /\ SamePair(views, j, k)) => Apart(views, j, k) >= DAY)
    /\ [][(lastCall'.op = "ViewsManager.addView"
             /\ HasRecordNewerThanDay(lastCall'.arg))
          => views' = views]_vars

\* User u1 viewed article 1 at time 0 and again a day later; both views
\* are stored, and the view after that, within the day, was not recorded.
C21_Witness ==
    /\ views = <<View(1, "u1", toISOString(0)), View(1, "u1", toISOString(DAY))>>
    /\ clock = DAY + 1
    /\ lastCall = Call("ViewsManager.addView", Item(1, "u1"), "none")

----------------------------------------------------------------------------
(* C25: the id of a new article.                                            *)

\* Stated by C25; the code does not keep it.  The article that
\* ArticleManager.add has just returned has no like and no view, and the
\* stored articles have pairwise distinct ids.
C25_NewArticleHasNoLikesOrViews ==
    /\ lastCall.op = "ArticleManager.add"
          => /\ LikesGetCount(likes, lastCall.ret) = 0
             /\ ViewsGetCount(lastCall.ret) = 0
    /\ \A j, k \in 1..Len(articles) : j # k => articles[j] # articles[k]

----------------------------------------------------------------------------
(* C26: what a toggle changes.                                              *)

\* Stated by C26; the code does not keep it.  A toggle of a pair flips
\* isLiked of the pair, returns the new status, changes getCount of the
\* article by one and leaves isLiked of every other pair as it was.
C26_ToggleChangesOnePair ==
    [][lastCall'.op = "LikesManager.toggle" =>
          LET a == lastCall'.arg.articleId
              u == lastCall'.arg.userId
          IN  /\ isLiked(likes', a, u) = ~isLiked(likes, a, u)
              /\ lastCall'.ret = isLiked(likes', a, u)
              /\ LikesGetCount(likes', a) - LikesGetCount(likes, a) \in {1, -1}
              /\ \A b \in ArticleIds, v \in Usernames :
                    Item(b, v) # Item(a, u)
                       => isLiked(likes', b, v) = isLiked(likes, b, v)]_vars

----------------------------------------------------------------------------
(* C24: the delayed redirect and the session it finds.                      *)

\* Stated by C24; the code does not keep it.  While nobody is logged in,
\* or the user who is logged in is no admin, currentPage is none of the
\* four admin pages.
C24_NonAdminIsNeverOnAnAdminPage ==
    (~isLoggedIn \/ ~isAdmin) => currentPage \notin AdminPages

----------------------------------------------------------------------------
(* C22: a username that is taken.                                           *)

\* No two stored users share a username.
UniqueUsernames ==
    \A j, k \in 1..Len(users) : j # k => users[j].username # users[k].username

\* C22: no two stored users share a username, and a registration with a
\* username that a stored user has returns false and leaves the user
\* store, the authentication state and the session keys as they were.
C22_DuplicateUsernameIsRejected ==
    /\ []UniqueUsernames
    /\ [][(lastCall'.op = "register" /\ existingUser(users, lastCall'.arg))
          => /\ lastCall'.ret = FALSE
             /\ users' = users
             /\ authState' = authState
             /\ session' = session]_vars

\* User u1 is stored and a second registration as u1, by a visitor who is
\* not logged in, has returned false.
C22_Witness ==
    /\ lastCall = Call("register", "u1", FALSE)
    /\ existingUser(users, "u1")
    /\ Len(users) = 2
    /\ authState = LoggedOut
    /\ session = NoSession

----------------------------------------------------------------------------
(* C23: the session found at start-up.                                      *)

\* Both keys of the session are stored.
KeysStored(s) == s.current_user_id # "none" /\ s.login_time # "none"

\* Less than 24 hours lie between login_time of s and now.
YoungerThanDay(s, now) == now - getTime(s.login_time) < DAY

\* A stored user has the id that s names.
UserIsStored(us, s) == \E k \in 1..Len(us) : us[k].id = s.current_user_id

\* C23: a start-up ends logged in only by restoring the stored session,
\* as the user the session names; it restores only a session whose two
\* keys are stored, that is younger than 24 hours and whose user is
\* stored; and when the keys are stored but the session is not younger
\* than 24 hours or its user is not stored, the keys are removed and
\* nobody is logged in.
C23_OnlyFreshSessionsAreRestored ==
    [][lastCall'.op = "mount" =>
          /\ authState'.isLoggedIn
                => /\ lastCall'.arg = "restored"
                   /\ authState'.userId = session.current_user_id
          /\ lastCall'.arg = "restored"
                => /\ KeysStored(session)
                   /\ YoungerThanDay(session, clock')
                   /\ UserIsStored(users, session)
                   /\ session' = session
          /\ (KeysStored(session)
                /\ ~(YoungerThanDay(session, clock')
                       /\ UserIsStored(users, session)))
                => /\ session' = NoSession
                   /\ ~authState'.isLoggedIn]_vars

\* The admin logged in at time 0 and the App was loaded a day later: the
\* session had expired, its keys are gone and nobody is logged in.
C23_Witness ==
    /\ lastCall = Call("mount", "expired", "returned")
    /\ clock = DAY
    /\ session = NoSession
    /\ authState = LoggedOut
    /\ otherAuth["B"] = LoggedOut
    /\ Len(users) = 1

\* User u1 registered here, an admin in another tab deleted u1 and the
\* App was loaded: the keys are gone and nobody is logged in.
C23_WitnessMissing ==
    /\ lastCall = Call("mount", "missing", "returned")
    /\ ~existingUser(users, "u1")
    /\ session = NoSession
    /\ authState = LoggedOut

\* The App was loaded within the day of a login: the session is restored.
C23_WitnessRestored ==
    /\ lastCall = Call("mount", "restored", "returned")
    /\ authState.isLoggedIn
    /\ authState.userId = session.current_user_id

----------------------------------------------------------------------------
(* C27: the default admin and a user store without an admin.                *)

\* Stated by C27; the code does not keep it.  When the App has been
\* loaded, UserManager.initializeDefaultAdmin() has returned and a stored
\* user has role 'admin'.
C27_DefaultAdminAlwaysCompletes ==
    lastCall.op = "mount" => (lastCall.ret = "returned" /\ adminExists(users))

====
